---- MODULE Spec2Model ----
(***************************************************************************)
(* Model of the zendesk_analyser core:                                     *)
(*   - the bulk job orchestrator (src/bulk_processor.py, BulkJobManager,   *)
(*     and the bulk_jobs table functions of src/app.py);                   *)
(*   - the three-phase analysis pipeline (src/app.py get_ticket_analysis   *)
(*     and src/services/openai_service.py);                                *)
(*   - the parsers of the gateway's response text                          *)
(*     (src/services/openai_service.py, _parse_phase1_response and         *)
(*     _parse_phase2_response);                                            *)
(*   - the retry loop of the two Zendesk fetch functions (src/app.py).     *)
(* SpecBulk is the orchestrator under concurrent start and cancel calls,   *)
(* SpecWorker one job with every outcome of the collaborators of           *)
(* process_single_ticket, SpecPipeline one call of get_ticket_analysis,    *)
(* SpecExtract one response text and a parser applied to it, SpecFetch     *)
(* one call of a fetch function; all are over the one variable tuple.      *)
(***************************************************************************)
EXTENDS Integers, Sequences, FiniteSets, TLC

(***************************************************************************)
(* Bounds of the model.                                                    *)
(***************************************************************************)
\* largest number of ticket ids in one bulk submission
MaxItems == 2
\* number of worker threads that can ever be spawned
MaxWorkers == 2
\* number of request threads calling start_bulk_job / cancel_job
MaxCallers == 2

\* largest number of test cases in one generated response
MaxTestCases == 2
\* how far the longest exception message exceeds the truncation length
MaxErrExtra == 1

\* the [:200] applied to exception messages
ErrTrunc == 200

JobIds == {"j1"}
Workers == 1..MaxWorkers

\* Python's None for an argument that is not provided
None == "None"

\* the four count arguments of update_bulk_job left at None
NoCounts == <<>>

(***************************************************************************)
(* Python strings.  Text that the gateway returns is a TLA+ string whose   *)
(* characters Chars gives; a string the program builds around another one  *)
(* (an f-string with validation feedback or with a truncated exception     *)
(* message) is the record made by S, SFeedback and SErr.                   *)
(***************************************************************************)
S(text) == [text |-> text, feedback |-> <<>>, err |-> <<>>]

SFeedback(text, fb) == [text |-> text, feedback |-> <<fb>>, err |-> <<>>]

SErr(prefix, e) == [text |-> prefix, feedback |-> <<>>, err |-> <<e>>]

Min(a, b) == IF a < b THEN a ELSE b

\* str(e)[:ErrTrunc]
Truncate(e) == [e EXCEPT !.len = Min(@, ErrTrunc)]

\* lengths of the messages of the exceptions a collaborator can raise
ErrLens == {1, ErrTrunc, ErrTrunc + MaxErrExtra}

VARIABLES
    bulk_jobs,      \* the bulk_jobs table: job id -> row
    active_jobs,    \* BulkJobManager._active_jobs: job id -> BOOLEAN
    worker,         \* the _run_job threads: locals and position of each
    starting,       \* job id -> request threads in start_job past its test
    cancelling,     \* job id -> request threads in cancel_job past its test
    last_ret,       \* <<function, job id, value>> of the last return, or <<>>
    ticket_summaries,   \* the ticket_summaries table: ids of the saved tickets
    ticket_priorities,  \* the ticket_priorities table: ids of the saved tickets
    openai_service,     \* app.openai_service is set (OPENAI_API_KEY given)
    ppc,                \* position of the get_ticket_analysis call
    ticket_analysis,    \* <<Phase 1 dict after the override>>, or <<>>
    enhanced_results,   \* <<Phase 2 dict>>, or <<>>
    validation_results, \* <<validation dict>>, or <<>>
    gateway_calls,      \* the gateway calls made so far, and whether each returned
    result,             \* <<dict returned by get_ticket_analysis>>, or <<>>
    raised,             \* <<message of the exception it raised>>, or <<>>
    output,             \* a gateway response text given to the parsers
    parsed,             \* <<parser, dict it returned>>, or <<>>
    fetch               \* the fetch_zendesk_ticket_* call: locals and position

savedVars == <<ticket_summaries, ticket_priorities>>

bulkVars == <<bulk_jobs, active_jobs, worker, starting, cancelling, last_ret,
              ticket_summaries, ticket_priorities>>

pipelineVars == <<openai_service, ppc, ticket_analysis, enhanced_results,
                  validation_results, gateway_calls, result, raised>>

extractVars == <<output, parsed>>

fetchVars == <<fetch>>

vars == <<bulk_jobs, active_jobs, worker, starting, cancelling, last_ret,
          ticket_summaries, ticket_priorities,
          openai_service, ppc, ticket_analysis, enhanced_results,
          validation_results, gateway_calls, result, raised,
          output, parsed, fetch>>

(***************************************************************************)
(* The bulk_jobs table (src/app.py).                                       *)
(***************************************************************************)

\* create_bulk_job: INSERT of a row in status 'pending' with zero counts
create_bulk_job(tbl, job_id, total_tickets) ==
    [j \in (DOMAIN tbl) \cup {job_id} |->
        IF j = job_id
        THEN [status |-> "pending",
              total_tickets |-> total_tickets,
              processed_count |-> 0,
              success_count |-> 0,
              failed_count |-> 0,
              ticket_results |-> <<>>]
        ELSE tbl[j]]

\* a write that applies the status and processed_count of an update but not
\* its success_count, failed_count and ticket_results
update_bulk_job_partial(tbl, job_id, status, counts) ==
    IF job_id \notin DOMAIN tbl THEN tbl
    ELSE [tbl EXCEPT ![job_id] =
            [@ EXCEPT
                !.status = IF status = None THEN @ ELSE status,
                !.processed_count =
                    IF counts = NoCounts THEN @ ELSE counts[1].processed_count]]

\* update_bulk_job: one UPDATE statement that sets exactly the provided
\* (not None) columns of the row; no row, no effect.  counts is None or the
\* record of processed_count, success_count, failed_count, ticket_results
\* (the callers pass these four together or not at all), as <<record>>.
update_bulk_job(tbl, job_id, status, counts) ==
    IF job_id \notin DOMAIN tbl THEN tbl
    ELSE [tbl EXCEPT ![job_id] =
            [@ EXCEPT
                !.status = IF status = None THEN @ ELSE status,
                !.processed_count =
                    IF counts = NoCounts THEN @ ELSE counts[1].processed_count,
                !.success_count =
                    IF counts = NoCounts THEN @ ELSE counts[1].success_count,
                !.failed_count =
                    IF counts = NoCounts THEN @ ELSE counts[1].failed_count,
                !.ticket_results =
                    IF counts = NoCounts THEN @ ELSE counts[1].ticket_results]]

(***************************************************************************)
(* BulkJobManager (src/bulk_processor.py).                                 *)
(***************************************************************************)

\* is_job_running: job_id in _active_jobs and _active_jobs[job_id]
is_job_running(act, job_id) ==
    job_id \in DOMAIN act /\ act[job_id]

\* self._active_jobs[job_id] = value
SetActive(act, job_id, value) ==
    [j \in (DOMAIN act) \cup {job_id} |-> IF j = job_id THEN value ELSE act[j]]

\* stop_job: if job_id in _active_jobs: _active_jobs[job_id] = False
stop_job(act, job_id) ==
    IF job_id \in DOMAIN act THEN SetActive(act, job_id, FALSE) ELSE act

\* self._active_jobs.pop(job_id, None)
PopActive(act, job_id) ==
    [j \in (DOMAIN act) \ {job_id} |-> act[j]]

\* self._active_jobs.get(job_id, False)
GetActive(act, job_id) ==
    IF job_id \in DOMAIN act THEN act[job_id] ELSE FALSE

IdleWorker ==
    [pc |-> "idle", job |-> None, n |-> 0,
     run_test_case |-> FALSE, run_priority |-> FALSE,
     priority_service |-> FALSE, last_item |-> <<>>,
     processed_count |-> 0, success_count |-> 0, failed_count |-> 0,
     ticket_results |-> <<>>, final_status |-> None,
     cancel_requested |-> FALSE, cancel_item |-> 0]

\* a worker thread that has been started and has not returned
Running(w) == worker[w].pc \notin {"idle", "done"}

FreeWorkers == {w \in Workers : worker[w].pc = "idle"}

\* request threads that are inside start_job or cancel_job
InFlight ==
    LET RECURSIVE Sum(_)
        Sum(js) == IF js = {} THEN 0
                  ELSE LET j == CHOOSE x \in js : TRUE
                       IN starting[j] + cancelling[j] + Sum(js \ {j})
    IN Sum(JobIds)

StartsInFlight ==
    LET RECURSIVE Sum(_)
        Sum(js) == IF js = {} THEN 0
                  ELSE LET j == CHOOSE x \in js : TRUE
                       IN starting[j] + Sum(js \ {j})
    IN Sum(JobIds)

\* the locals a worker publishes with a progress update
Counts(wr) ==
    <<[processed_count |-> wr.processed_count,
       success_count |-> wr.success_count,
       failed_count |-> wr.failed_count,
       ticket_results |-> wr.ticket_results]>>

\* start_job from the assignment on: register the job and start the thread
SpawnWorker(w, job_id, n, run_test_case, run_priority) ==
    /\ active_jobs' = SetActive(active_jobs, job_id, TRUE)
    /\ worker' = [worker EXCEPT ![w] =
                    [IdleWorker EXCEPT !.pc = "start", !.job = job_id, !.n = n,
                                       !.run_test_case = run_test_case,
                                       !.run_priority = run_priority]]

BulkInit ==
    /\ bulk_jobs = <<>>
    /\ active_jobs = <<>>
    /\ worker = [w \in Workers |-> IdleWorker]
    /\ starting = [j \in JobIds |-> 0]
    /\ cancelling = [j \in JobIds |-> 0]
    /\ last_ret = <<>>
    /\ ticket_summaries = {}
    /\ ticket_priorities = {}

\* a bulk_index that creates and starts the job whatever kinds are selected
Submit_unchecked(job_id, n, run_test_case, run_priority) ==
    /\ job_id \notin DOMAIN bulk_jobs
    /\ FreeWorkers # {}
    /\ bulk_jobs' = create_bulk_job(bulk_jobs, job_id, n)
    /\ SpawnWorker(CHOOSE w \in FreeWorkers : TRUE, job_id, n,
                   run_test_case, run_priority)
    /\ last_ret' = IF ~run_test_case /\ ~run_priority
                   THEN <<"bulk_index", None, FALSE>> ELSE last_ret
    /\ UNCHANGED <<starting, cancelling>>
    /\ UNCHANGED savedVars
    /\ UNCHANGED pipelineVars
    /\ UNCHANGED extractVars
    /\ UNCHANGED fetchVars

\* bulk_index with a CSV file of n distinct ticket ids: with no analysis
\* kind selected it reports the error and returns; otherwise it creates the
\* row under a fresh job id and starts the job
Submit(job_id, n, run_test_case, run_priority) ==
    /\ job_id \notin DOMAIN bulk_jobs
    /\ FreeWorkers # {}
    /\ IF ~run_test_case /\ ~run_priority
       THEN /\ last_ret' = <<"bulk_index", None, FALSE>>
            /\ UNCHANGED <<bulk_jobs, active_jobs, worker>>
       ELSE /\ bulk_jobs' = create_bulk_job(bulk_jobs, job_id, n)
            /\ SpawnWorker(CHOOSE w \in FreeWorkers : TRUE, job_id, n,
                           run_test_case, run_priority)
            /\ UNCHANGED last_ret
    /\ UNCHANGED <<starting, cancelling>>
    /\ UNCHANGED savedVars
    /\ UNCHANGED pipelineVars
    /\ UNCHANGED extractVars
    /\ UNCHANGED fetchVars

\* create_bulk_job and start_bulk_job called with an empty list of ticket
\* ids and the default options (bulk_index rejects a file without ticket
\* ids, _run_job accepts the list)
SubmitEmpty(job_id) ==
    /\ job_id \notin DOMAIN bulk_jobs
    /\ FreeWorkers # {}
    /\ bulk_jobs' = create_bulk_job(bulk_jobs, job_id, 0)
    /\ SpawnWorker(CHOOSE w \in FreeWorkers : TRUE, job_id, 0, TRUE, TRUE)
    /\ UNCHANGED <<starting, cancelling, last_ret>>
    /\ UNCHANGED savedVars
    /\ UNCHANGED pipelineVars
    /\ UNCHANGED extractVars
    /\ UNCHANGED fetchVars

\* start_bulk_job -> start_job, the is_job_running test: return False, or
\* go on to start the job
StartCheck(job_id) ==
    /\ job_id \in DOMAIN bulk_jobs
    /\ InFlight < MaxCallers
    /\ Cardinality(FreeWorkers) > StartsInFlight
    /\ IF is_job_running(active_jobs, job_id)
       THEN /\ last_ret' = <<"start_job", job_id, FALSE>>
            /\ UNCHANGED starting
       ELSE /\ starting' = [starting EXCEPT ![job_id] = @ + 1]
            /\ UNCHANGED last_ret
    /\ UNCHANGED <<bulk_jobs, active_jobs, worker, cancelling>>
    /\ UNCHANGED savedVars
    /\ UNCHANGED pipelineVars
    /\ UNCHANGED extractVars
    /\ UNCHANGED fetchVars

\* start_job after the test: set the flag, start the thread, return True
\* (start_bulk_job with the ticket ids of the job and its default options)
StartSpawn(job_id) ==
    /\ starting[job_id] > 0
    /\ FreeWorkers # {}
    /\ SpawnWorker(CHOOSE w \in FreeWorkers : TRUE, job_id,
                   bulk_jobs[job_id].total_tickets, TRUE, TRUE)
    /\ starting' = [starting EXCEPT ![job_id] = @ - 1]
    /\ last_ret' = <<"start_job", job_id, TRUE>>
    /\ UNCHANGED <<bulk_jobs, cancelling>>
    /\ UNCHANGED savedVars
    /\ UNCHANGED pipelineVars
    /\ UNCHANGED extractVars
    /\ UNCHANGED fetchVars

\* cancel_job, the is_job_running test: return False, or go on to stop_job
CancelCheck(job_id) ==
    /\ job_id \in DOMAIN bulk_jobs
    /\ InFlight < MaxCallers
    /\ IF is_job_running(active_jobs, job_id)
       THEN /\ cancelling' = [cancelling EXCEPT ![job_id] = @ + 1]
            /\ UNCHANGED last_ret
       ELSE /\ last_ret' = <<"cancel_job", job_id, FALSE>>
            /\ UNCHANGED cancelling
    /\ UNCHANGED <<bulk_jobs, active_jobs, worker, starting>>
    /\ UNCHANGED savedVars
    /\ UNCHANGED pipelineVars
    /\ UNCHANGED extractVars
    /\ UNCHANGED fetchVars

\* cancel_job after the test: stop_job, return True.  Each worker of the job
\* that is running notes that a cancel succeeded (cancel_requested) and the
\* ticket it was processing at that moment (cancel_item, 0 for none).
CancelStop(job_id) ==
    /\ cancelling[job_id] > 0
    /\ active_jobs' = stop_job(active_jobs, job_id)
    /\ worker' = [w \in Workers |->
          IF Running(w) /\ worker[w].job = job_id
          THEN [worker[w] EXCEPT
                  !.cancel_requested = TRUE,
                  !.cancel_item = IF worker[w].pc = "item" /\ @ = 0
                                  THEN worker[w].processed_count + 1 ELSE @]
          ELSE worker[w]]
    /\ cancelling' = [cancelling EXCEPT ![job_id] = @ - 1]
    /\ last_ret' = <<"cancel_job", job_id, TRUE>>
    /\ UNCHANGED <<bulk_jobs, starting>>
    /\ UNCHANGED savedVars
    /\ UNCHANGED pipelineVars
    /\ UNCHANGED extractVars
    /\ UNCHANGED fetchVars

(***************************************************************************)
(* process_single_ticket (src/bulk_processor.py).                          *)
(***************************************************************************)

\* what the collaborators do for one ticket: the two Zendesk fetches (a
\* response with a status code, or an exception after the retries), whether
\* reading and mapping the ticket fields raises, whether the formatted
\* conversation is non-empty, whether each INSERT goes through (the save
\* functions swallow database errors), what analyze_ticket_priority does,
\* and the length of the message of whatever exception is raised
ItemInputs ==
    [ticket : {"200", "404", "raise"},
     fields : {"ok", "raise"},
     comments : {"200", "500", "raise"},
     conversation : BOOLEAN,
     summary_db : BOOLEAN,
     priority : {"dict", "raise"},
     priority_db : BOOLEAN,
     len : ErrLens]

\* a ticket for which every collaborator succeeds
ItemOk ==
    [ticket |-> "200", fields |-> "ok", comments |-> "200",
     conversation |-> TRUE,
     summary_db |-> TRUE, priority |-> "dict", priority_db |-> TRUE,
     len |-> 1]

\* the ticket inputs of the orchestrator under concurrent calls: all well,
\* or Zendesk does not know the ticket
BulkItemInputs == {ItemOk, [ItemOk EXCEPT !.ticket = "404"]}

\* what process_single_ticket got from Zendesk for the ticket, before any
\* analysis
Fetched(input) ==
    [ticket |-> input.ticket, fields |-> input.fields,
     comments |-> input.comments, conversation |-> input.conversation]

\* return {'success': False, 'error': error}, before any analysis
ItemFailed(error) ==
    [result |-> [success |-> FALSE, error |-> error],
     analysis |-> "none", priority |-> "none"]

\* Step 4: get_ticket_analysis raises only when app.openai_service is not
\* set, and returns a dict otherwise, which save_ticket_summary stores
TestCaseStep(input, run_test_case, analysis_raises) ==
    IF ~run_test_case THEN "none"
    ELSE IF analysis_raises THEN "raised"
    ELSE IF input.summary_db THEN "saved"
    ELSE "save_failed"

\* Step 5: analyze_ticket_priority and save_ticket_priority
PriorityStep(input, run_priority, priority_service) ==
    IF ~run_priority THEN "none"
    ELSE IF ~priority_service THEN "no_service"
    ELSE IF input.priority = "raise" THEN "raised"
    ELSE IF input.priority_db THEN "saved"
    ELSE "save_failed"

\* a process_single_ticket whose test case analysis is not guarded: its
\* exception reaches the outer handler and the ticket fails
process_single_ticket_unguarded(input, run_test_case, run_priority, priority_service, analysis_raises) ==
    LET e == [openai |-> FALSE, where |-> "", len |-> input.len]
    IN  IF input.ticket = "raise" THEN ItemFailed(SErr("", Truncate(e)))
        ELSE IF input.ticket # "200"
        THEN ItemFailed(S("Zendesk API error (ticket): 404"))
        ELSE IF input.fields = "raise" \/ input.comments = "raise"
        THEN ItemFailed(SErr("", Truncate(e)))
        ELSE IF input.comments # "200"
        THEN ItemFailed(S("Zendesk API error (comments): 500"))
        ELSE IF ~input.conversation
        THEN ItemFailed(S("No conversation found"))
        ELSE IF run_test_case /\ analysis_raises
        THEN [result |-> [success |-> FALSE, error |-> SErr("", Truncate(e))],
              analysis |-> "raised", priority |-> "none"]
        ELSE [result |-> [success |-> TRUE],
              analysis |-> TestCaseStep(input, run_test_case, analysis_raises),
              priority |-> PriorityStep(input, run_priority, priority_service)]

\* a process_single_ticket that succeeds only when every enabled analysis
\* has been stored
process_single_ticket_all_saved(input, run_test_case, run_priority, priority_service, analysis_raises) ==
    LET e == [openai |-> FALSE, where |-> "", len |-> input.len]
        analysis == TestCaseStep(input, run_test_case, analysis_raises)
        priority == PriorityStep(input, run_priority, priority_service)
    IN  IF input.ticket = "raise" THEN ItemFailed(SErr("", Truncate(e)))
        ELSE IF input.ticket # "200"
        THEN ItemFailed(S("Zendesk API error (ticket): 404"))
        ELSE IF input.fields = "raise" \/ input.comments = "raise"
        THEN ItemFailed(SErr("", Truncate(e)))
        ELSE IF input.comments # "200"
        THEN ItemFailed(S("Zendesk API error (comments): 500"))
        ELSE IF ~input.conversation
        THEN ItemFailed(S("No conversation found"))
        ELSE [result |-> IF {analysis, priority} \subseteq {"none", "saved"}
                         THEN [success |-> TRUE]
                         ELSE [success |-> FALSE, error |-> S("Unknown error")],
              analysis |-> analysis,
              priority |-> priority]


\* process_single_ticket: the result dict, and what became of each of the
\* two analyses ("none": not reached or not enabled), the INSERTs included
process_single_ticket(input, run_test_case, run_priority, priority_service, analysis_raises) ==
    LET e == [openai |-> FALSE, where |-> "", len |-> input.len]
    IN  IF input.ticket = "raise" THEN ItemFailed(SErr("", Truncate(e)))
        ELSE IF input.ticket # "200"
        THEN ItemFailed(S("Zendesk API error (ticket): 404"))
        ELSE IF input.fields = "raise" \/ input.comments = "raise"
        THEN ItemFailed(SErr("", Truncate(e)))
        ELSE IF input.comments # "200"
        THEN ItemFailed(S("Zendesk API error (comments): 500"))
        ELSE IF ~input.conversation
        THEN ItemFailed(S("No conversation found"))
        ELSE [result |-> [success |-> TRUE],
              analysis |-> TestCaseStep(input, run_test_case, analysis_raises),
              priority |-> PriorityStep(input, run_priority, priority_service)]

(***************************************************************************)
(* BulkJobManager._run_job (src/bulk_processor.py).                        *)
(***************************************************************************)

\* _run_job: the priority service is made when OPENAI_API_KEY is in the
\* environment and priority analysis is enabled; then
\* update_bulk_job(job_id, status='running')
WorkerBegin(w, api_key) ==
    /\ worker[w].pc = "start"
    /\ bulk_jobs' = update_bulk_job(bulk_jobs, worker[w].job, "running", NoCounts)
    /\ worker' = [worker EXCEPT
                    ![w].pc = "loop",
                    ![w].priority_service = api_key /\ worker[w].run_priority]
    /\ UNCHANGED <<active_jobs, starting, cancelling, last_ret>>
    /\ UNCHANGED savedVars
    /\ UNCHANGED pipelineVars
    /\ UNCHANGED extractVars
    /\ UNCHANGED fetchVars

\* _run_job: the head of the for loop and the cancellation test
WorkerLoop(w) ==
    /\ worker[w].pc = "loop"
    /\ IF worker[w].processed_count = worker[w].n
       THEN /\ worker' = [worker EXCEPT ![w].pc = "final"]
            /\ UNCHANGED bulk_jobs
       ELSE IF ~GetActive(active_jobs, worker[w].job)
       THEN /\ bulk_jobs' = update_bulk_job(bulk_jobs, worker[w].job,
                                            "cancelled", Counts(worker[w]))
            /\ worker' = [worker EXCEPT ![w].pc = "final"]
       ELSE /\ worker' = [worker EXCEPT ![w].pc = "item"]
            /\ UNCHANGED bulk_jobs
    /\ UNCHANGED <<active_jobs, starting, cancelling, last_ret>>
    /\ UNCHANGED savedVars
    /\ UNCHANGED pipelineVars
    /\ UNCHANGED extractVars
    /\ UNCHANGED fetchVars

\* the entry of ticket_results for a result of process_single_ticket
TicketResult(res) ==
    IF res.success THEN [status |-> "success"]
    ELSE [status |-> "failed", error |-> res.error]

\* a _run_job that stops the job at the first ticket that fails
WorkerItem_aborts(w, input) ==
    /\ worker[w].pc = "item"
    /\ LET ticket_id == worker[w].processed_count + 1
           out == process_single_ticket(
                      input, worker[w].run_test_case, worker[w].run_priority,
                      worker[w].priority_service, ~openai_service)
           res == out.result
           wr == IF res.success
                 THEN [worker[w] EXCEPT
                         !.success_count = @ + 1,
                         !.ticket_results =
                             [t \in (DOMAIN @) \cup {ticket_id} |->
                                 IF t = ticket_id THEN TicketResult(res)
                                 ELSE @[t]],
                         !.processed_count = @ + 1,
                         !.last_item = <<out, Fetched(input)>>,
                         !.pc = "loop"]
                 ELSE [worker[w] EXCEPT !.last_item = <<out, Fetched(input)>>,
                                        !.pc = "final"]
       IN /\ worker' = [worker EXCEPT ![w] = wr]
          /\ bulk_jobs' = update_bulk_job(bulk_jobs, wr.job, None, Counts(wr))
          /\ ticket_summaries' =
                IF out.analysis = "saved"
                THEN ticket_summaries \cup {ticket_id} ELSE ticket_summaries
          /\ ticket_priorities' =
                IF out.priority = "saved"
                THEN ticket_priorities \cup {ticket_id} ELSE ticket_priorities
    /\ UNCHANGED <<active_jobs, starting, cancelling, last_ret>>
    /\ UNCHANGED pipelineVars
    /\ UNCHANGED extractVars
    /\ UNCHANGED fetchVars

\* _run_job: process_single_ticket for the current ticket (which saves what
\* its analyses return and catches every exception itself, so the except
\* branch of _run_job is not entered), the counts and the per-ticket map,
\* then the progress update
WorkerItem(w, input) ==
    /\ worker[w].pc = "item"
    /\ LET ticket_id == worker[w].processed_count + 1
           out == process_single_ticket(
                      input, worker[w].run_test_case, worker[w].run_priority,
                      worker[w].priority_service, ~openai_service)
           res == out.result
           wr == [worker[w] EXCEPT
                    !.success_count = IF res.success THEN @ + 1 ELSE @,
                    !.failed_count = IF res.success THEN @ ELSE @ + 1,
                    !.ticket_results =
                        [t \in (DOMAIN @) \cup {ticket_id} |->
                            IF t = ticket_id THEN TicketResult(res)
                            ELSE @[t]],
                    !.processed_count = @ + 1,
                    !.last_item = <<out, Fetched(input)>>,
                    !.pc = "loop"]
       IN /\ worker' = [worker EXCEPT ![w] = wr]
          /\ bulk_jobs' = update_bulk_job(bulk_jobs, wr.job, None, Counts(wr))
          /\ ticket_summaries' =
                IF out.analysis = "saved"
                THEN ticket_summaries \cup {ticket_id} ELSE ticket_summaries
          /\ ticket_priorities' =
                IF out.priority = "saved"
                THEN ticket_priorities \cup {ticket_id} ELSE ticket_priorities
    /\ UNCHANGED <<active_jobs, starting, cancelling, last_ret>>
    /\ UNCHANGED pipelineVars
    /\ UNCHANGED extractVars
    /\ UNCHANGED fetchVars

\* a final status update that goes by the cancellation flag
WorkerFinal_by_flag(w) ==
    /\ worker[w].pc = "final"
    /\ LET final_status ==
             IF GetActive(active_jobs, worker[w].job)
             THEN "completed" ELSE "cancelled"
       IN /\ bulk_jobs' = update_bulk_job(bulk_jobs, worker[w].job,
                                          final_status, Counts(worker[w]))
          /\ worker' = [worker EXCEPT ![w].pc = "cleanup",
                                      ![w].final_status = final_status]
    /\ UNCHANGED <<active_jobs, starting, cancelling, last_ret>>
    /\ UNCHANGED savedVars
    /\ UNCHANGED pipelineVars
    /\ UNCHANGED extractVars
    /\ UNCHANGED fetchVars

\* _run_job: the final status update
WorkerFinal(w) ==
    /\ worker[w].pc = "final"
    /\ LET final_status ==
             IF worker[w].processed_count = worker[w].n
             THEN "completed" ELSE "cancelled"
       IN /\ bulk_jobs' = update_bulk_job(bulk_jobs, worker[w].job,
                                          final_status, Counts(worker[w]))
          /\ worker' = [worker EXCEPT ![w].pc = "cleanup",
                                      ![w].final_status = final_status]
    /\ UNCHANGED <<active_jobs, starting, cancelling, last_ret>>
    /\ UNCHANGED savedVars
    /\ UNCHANGED pipelineVars
    /\ UNCHANGED extractVars
    /\ UNCHANGED fetchVars

\* _run_job: clean up the registry; the thread ends and its locals are gone
WorkerCleanup(w) ==
    /\ worker[w].pc = "cleanup"
    /\ active_jobs' = PopActive(active_jobs, worker[w].job)
    /\ worker' = [worker EXCEPT ![w] = [IdleWorker EXCEPT !.pc = "done"]]
    /\ UNCHANGED <<bulk_jobs, starting, cancelling, last_ret>>
    /\ UNCHANGED savedVars
    /\ UNCHANGED pipelineVars
    /\ UNCHANGED extractVars
    /\ UNCHANGED fetchVars

BulkNext ==
    \/ \E j \in JobIds, n \in 1..MaxItems, kinds \in BOOLEAN :
          Submit(j, n, kinds, kinds)
    \/ \E j \in JobIds : SubmitEmpty(j)
    \/ \E j \in JobIds : StartCheck(j)
    \/ \E j \in JobIds : StartSpawn(j)
    \/ \E j \in JobIds : CancelCheck(j)
    \/ \E j \in JobIds : CancelStop(j)
    \/ \E w \in Workers : WorkerBegin(w, TRUE)
    \/ \E w \in Workers : WorkerLoop(w)
    \/ \E w \in Workers, input \in BulkItemInputs : WorkerItem(w, input)
    \/ \E w \in Workers : WorkerFinal(w)
    \/ \E w \in Workers : WorkerCleanup(w)

\* one job and its worker, with every outcome of the collaborators
WorkerNext ==
    \/ \E j \in JobIds, n \in 1..MaxItems,
          run_test_case \in BOOLEAN, run_priority \in BOOLEAN :
          Submit(j, n, run_test_case, run_priority)
    \/ \E w \in Workers, api_key \in BOOLEAN : WorkerBegin(w, api_key)
    \/ \E w \in Workers : WorkerLoop(w)
    \/ \E w \in Workers, input \in ItemInputs : WorkerItem(w, input)
    \/ \E w \in Workers : WorkerFinal(w)
    \/ \E w \in Workers : WorkerCleanup(w)


(***************************************************************************)
(* Text tables (src/app.py, get_ticket_analysis: the phrase lists; the     *)
(* texts are the Phase 1 answers the model draws from).                    *)
(***************************************************************************)
root_cause_not_identified_phrases ==
    {"not identified",
     "unable to determine",
     "unknown",
     "not clear",
     "cannot be determined",
     "not specified",
     "not found",
     "unclear",
     "ambiguous",
     "vague",
     "not known"}

functional_gap_phrases ==
    {"no task created",
     "task not created",
     "not created",
     "missing task",
     "no failure reported",
     "no error",
     "silent failure",
     "silently failed",
     "did not trigger",
     "not triggered",
     "failed to trigger",
     "should have",
     "expected to",
     "supposed to",
     "should create",
     "should generate",
     "missing",
     "not generated",
     "not executed",
     "not running",
     "stuck",
     "stopped",
     "not working",
     "not functioning"}

code_bug_phrases ==
    {"exception",
     "not properly handled",
     "not handled",
     "error handling",
     "exception handling",
     "bug",
     "defect",
     "failure",
     "crash",
     "leak",
     "memory leak",
     "race condition",
     "deadlock",
     "timeout",
     "retry",
     "logic error",
     "algorithm error",
     "validation error",
     "processing error",
     "data corruption",
     "data loss",
     "incorrect",
     "wrong",
     "invalid",
     "missing check",
     "missing validation",
     "missing error",
     "missing exception"}

user_mistake_phrases ==
    {"user error",
     "user mistake",
     "user configuration error",
     "user did not",
     "user failed to",
     "user misunderstood",
     "user did not follow",
     "user not following"}

product_limitation_phrases ==
    {"product limitation",
     "system limitation",
     "by design",
     "documented limitation",
     "known limitation",
     "working as designed",
     "feature does not exist",
     "feature not available",
     "missing feature",
     "not supported",
     "not implemented",
     "out of scope"}

RootCauseTexts ==
    {"",
     "Root cause not identified",
     "NullPointerException in sync job",
     "User configuration error",
     "Working as designed",
     "Connector was paused",
     "unclear root cause, but TASK NOT CREATED",
     "Unknown exception in scheduler"}

IssueTexts ==
    {"Task not created after sync",
     "Pipeline shows old data",
     "Exception not handled",
     "user configuration error"}

AnswerTexts ==
    {"Yes",
     "No",
     "yes, a code fix is needed",
     ""}

\* the characters of each string the model uses
Chars(s) ==
    CASE s = "Unknown exception in scheduler" -> <<"U", "n", "k", "n", "o", "w", "n", " ", "e", "x", "c", "e", "p", "t", "i", "o", "n", " ", "i", "n", " ", "s", "c", "h", "e", "d", "u", "l", "e", "r">>
      [] s = "not identified" -> <<"n", "o", "t", " ", "i", "d", "e", "n", "t", "i", "f", "i", "e", "d">>
      [] s = "unable to determine" -> <<"u", "n", "a", "b", "l", "e", " ", "t", "o", " ", "d", "e", "t", "e", "r", "m", "i", "n", "e">>
      [] s = "unknown" -> <<"u", "n", "k", "n", "o", "w", "n">>
      [] s = "not clear" -> <<"n", "o", "t", " ", "c", "l", "e", "a", "r">>
      [] s = "cannot be determined" -> <<"c", "a", "n", "n", "o", "t", " ", "b", "e", " ", "d", "e", "t", "e", "r", "m", "i", "n", "e", "d">>
      [] s = "not specified" -> <<"n", "o", "t", " ", "s", "p", "e", "c", "i", "f", "i", "e", "d">>
      [] s = "not found" -> <<"n", "o", "t", " ", "f", "o", "u", "n", "d">>
      [] s = "unclear" -> <<"u", "n", "c", "l", "e", "a", "r">>
      [] s = "ambiguous" -> <<"a", "m", "b", "i", "g", "u", "o", "u", "s">>
      [] s = "vague" -> <<"v", "a", "g", "u", "e">>
      [] s = "not known" -> <<"n", "o", "t", " ", "k", "n", "o", "w", "n">>
      [] s = "no task created" -> <<"n", "o", " ", "t", "a", "s", "k", " ", "c", "r", "e", "a", "t", "e", "d">>
      [] s = "task not created" -> <<"t", "a", "s", "k", " ", "n", "o", "t", " ", "c", "r", "e", "a", "t", "e", "d">>
      [] s = "not created" -> <<"n", "o", "t", " ", "c", "r", "e", "a", "t", "e", "d">>
      [] s = "missing task" -> <<"m", "i", "s", "s", "i", "n", "g", " ", "t", "a", "s", "k">>
      [] s = "no failure reported" -> <<"n", "o", " ", "f", "a", "i", "l", "u", "r", "e", " ", "r", "e", "p", "o", "r", "t", "e", "d">>
      [] s = "no error" -> <<"n", "o", " ", "e", "r", "r", "o", "r">>
      [] s = "silent failure" -> <<"s", "i", "l", "e", "n", "t", " ", "f", "a", "i", "l", "u", "r", "e">>
      [] s = "silently failed" -> <<"s", "i", "l", "e", "n", "t", "l", "y", " ", "f", "a", "i", "l", "e", "d">>
      [] s = "did not trigger" -> <<"d", "i", "d", " ", "n", "o", "t", " ", "t", "r", "i", "g", "g", "e", "r">>
      [] s = "not triggered" -> <<"n", "o", "t", " ", "t", "r", "i", "g", "g", "e", "r", "e", "d">>
      [] s = "failed to trigger" -> <<"f", "a", "i", "l", "e", "d", " ", "t", "o", " ", "t", "r", "i", "g", "g", "e", "r">>
      [] s = "should have" -> <<"s", "h", "o", "u", "l", "d", " ", "h", "a", "v", "e">>
      [] s = "expected to" -> <<"e", "x", "p", "e", "c", "t", "e", "d", " ", "t", "o">>
      [] s = "supposed to" -> <<"s", "u", "p", "p", "o", "s", "e", "d", " ", "t", "o">>
      [] s = "should create" -> <<"s", "h", "o", "u", "l", "d", " ", "c", "r", "e", "a", "t", "e">>
      [] s = "should generate" -> <<"s", "h", "o", "u", "l", "d", " ", "g", "e", "n", "e", "r", "a", "t", "e">>
      [] s = "missing" -> <<"m", "i", "s", "s", "i", "n", "g">>
      [] s = "not generated" -> <<"n", "o", "t", " ", "g", "e", "n", "e", "r", "a", "t", "e", "d">>
      [] s = "not executed" -> <<"n", "o", "t", " ", "e", "x", "e", "c", "u", "t", "e", "d">>
      [] s = "not running" -> <<"n", "o", "t", " ", "r", "u", "n", "n", "i", "n", "g">>
      [] s = "stuck" -> <<"s", "t", "u", "c", "k">>
      [] s = "stopped" -> <<"s", "t", "o", "p", "p", "e", "d">>
      [] s = "not working" -> <<"n", "o", "t", " ", "w", "o", "r", "k", "i", "n", "g">>
      [] s = "not functioning" -> <<"n", "o", "t", " ", "f", "u", "n", "c", "t", "i", "o", "n", "i", "n", "g">>
      [] s = "exception" -> <<"e", "x", "c", "e", "p", "t", "i", "o", "n">>
      [] s = "not properly handled" -> <<"n", "o", "t", " ", "p", "r", "o", "p", "e", "r", "l", "y", " ", "h", "a", "n", "d", "l", "e", "d">>
      [] s = "not handled" -> <<"n", "o", "t", " ", "h", "a", "n", "d", "l", "e", "d">>
      [] s = "error handling" -> <<"e", "r", "r", "o", "r", " ", "h", "a", "n", "d", "l", "i", "n", "g">>
      [] s = "exception handling" -> <<"e", "x", "c", "e", "p", "t", "i", "o", "n", " ", "h", "a", "n", "d", "l", "i", "n", "g">>
      [] s = "bug" -> <<"b", "u", "g">>
      [] s = "defect" -> <<"d", "e", "f", "e", "c", "t">>
      [] s = "failure" -> <<"f", "a", "i", "l", "u", "r", "e">>
      [] s = "crash" -> <<"c", "r", "a", "s", "h">>
      [] s = "leak" -> <<"l", "e", "a", "k">>
      [] s = "memory leak" -> <<"m", "e", "m", "o", "r", "y", " ", "l", "e", "a", "k">>
      [] s = "race condition" -> <<"r", "a", "c", "e", " ", "c", "o", "n", "d", "i", "t", "i", "o", "n">>
      [] s = "deadlock" -> <<"d", "e", "a", "d", "l", "o", "c", "k">>
      [] s = "timeout" -> <<"t", "i", "m", "e", "o", "u", "t">>
      [] s = "retry" -> <<"r", "e", "t", "r", "y">>
      [] s = "logic error" -> <<"l", "o", "g", "i", "c", " ", "e", "r", "r", "o", "r">>
      [] s = "algorithm error" -> <<"a", "l", "g", "o", "r", "i", "t", "h", "m", " ", "e", "r", "r", "o", "r">>
      [] s = "validation error" -> <<"v", "a", "l", "i", "d", "a", "t", "i", "o", "n", " ", "e", "r", "r", "o", "r">>
      [] s = "processing error" -> <<"p", "r", "o", "c", "e", "s", "s", "i", "n", "g", " ", "e", "r", "r", "o", "r">>
      [] s = "data corruption" -> <<"d", "a", "t", "a", " ", "c", "o", "r", "r", "u", "p", "t", "i", "o", "n">>
      [] s = "data loss" -> <<"d", "a", "t", "a", " ", "l", "o", "s", "s">>
      [] s = "incorrect" -> <<"i", "n", "c", "o", "r", "r", "e", "c", "t">>
      [] s = "wrong" -> <<"w", "r", "o", "n", "g">>
      [] s = "invalid" -> <<"i", "n", "v", "a", "l", "i", "d">>
      [] s = "missing check" -> <<"m", "i", "s", "s", "i", "n", "g", " ", "c", "h", "e", "c", "k">>
      [] s = "missing validation" -> <<"m", "i", "s", "s", "i", "n", "g", " ", "v", "a", "l", "i", "d", "a", "t", "i", "o", "n">>
      [] s = "missing error" -> <<"m", "i", "s", "s", "i", "n", "g", " ", "e", "r", "r", "o", "r">>
      [] s = "missing exception" -> <<"m", "i", "s", "s", "i", "n", "g", " ", "e", "x", "c", "e", "p", "t", "i", "o", "n">>
      [] s = "user error" -> <<"u", "s", "e", "r", " ", "e", "r", "r", "o", "r">>
      [] s = "user mistake" -> <<"u", "s", "e", "r", " ", "m", "i", "s", "t", "a", "k", "e">>
      [] s = "user configuration error" -> <<"u", "s", "e", "r", " ", "c", "o", "n", "f", "i", "g", "u", "r", "a", "t", "i", "o", "n", " ", "e", "r", "r", "o", "r">>
      [] s = "user did not" -> <<"u", "s", "e", "r", " ", "d", "i", "d", " ", "n", "o", "t">>
      [] s = "user failed to" -> <<"u", "s", "e", "r", " ", "f", "a", "i", "l", "e", "d", " ", "t", "o">>
      [] s = "user misunderstood" -> <<"u", "s", "e", "r", " ", "m", "i", "s", "u", "n", "d", "e", "r", "s", "t", "o", "o", "d">>
      [] s = "user did not follow" -> <<"u", "s", "e", "r", " ", "d", "i", "d", " ", "n", "o", "t", " ", "f", "o", "l", "l", "o", "w">>
      [] s = "user not following" -> <<"u", "s", "e", "r", " ", "n", "o", "t", " ", "f", "o", "l", "l", "o", "w", "i", "n", "g">>
      [] s = "product limitation" -> <<"p", "r", "o", "d", "u", "c", "t", " ", "l", "i", "m", "i", "t", "a", "t", "i", "o", "n">>
      [] s = "system limitation" -> <<"s", "y", "s", "t", "e", "m", " ", "l", "i", "m", "i", "t", "a", "t", "i", "o", "n">>
      [] s = "by design" -> <<"b", "y", " ", "d", "e", "s", "i", "g", "n">>
      [] s = "documented limitation" -> <<"d", "o", "c", "u", "m", "e", "n", "t", "e", "d", " ", "l", "i", "m", "i", "t", "a", "t", "i", "o", "n">>
      [] s = "known limitation" -> <<"k", "n", "o", "w", "n", " ", "l", "i", "m", "i", "t", "a", "t", "i", "o", "n">>
      [] s = "working as designed" -> <<"w", "o", "r", "k", "i", "n", "g", " ", "a", "s", " ", "d", "e", "s", "i", "g", "n", "e", "d">>
      [] s = "feature does not exist" -> <<"f", "e", "a", "t", "u", "r", "e", " ", "d", "o", "e", "s", " ", "n", "o", "t", " ", "e", "x", "i", "s", "t">>
      [] s = "feature not available" -> <<"f", "e", "a", "t", "u", "r", "e", " ", "n", "o", "t", " ", "a", "v", "a", "i", "l", "a", "b", "l", "e">>
      [] s = "missing feature" -> <<"m", "i", "s", "s", "i", "n", "g", " ", "f", "e", "a", "t", "u", "r", "e">>
      [] s = "not supported" -> <<"n", "o", "t", " ", "s", "u", "p", "p", "o", "r", "t", "e", "d">>
      [] s = "not implemented" -> <<"n", "o", "t", " ", "i", "m", "p", "l", "e", "m", "e", "n", "t", "e", "d">>
      [] s = "out of scope" -> <<"o", "u", "t", " ", "o", "f", " ", "s", "c", "o", "p", "e">>
      [] s = "" -> <<>>
      [] s = "Root cause not identified" -> <<"R", "o", "o", "t", " ", "c", "a", "u", "s", "e", " ", "n", "o", "t", " ", "i", "d", "e", "n", "t", "i", "f", "i", "e", "d">>
      [] s = "NullPointerException in sync job" -> <<"N", "u", "l", "l", "P", "o", "i", "n", "t", "e", "r", "E", "x", "c", "e", "p", "t", "i", "o", "n", " ", "i", "n", " ", "s", "y", "n", "c", " ", "j", "o", "b">>
      [] s = "User configuration error" -> <<"U", "s", "e", "r", " ", "c", "o", "n", "f", "i", "g", "u", "r", "a", "t", "i", "o", "n", " ", "e", "r", "r", "o", "r">>
      [] s = "Working as designed" -> <<"W", "o", "r", "k", "i", "n", "g", " ", "a", "s", " ", "d", "e", "s", "i", "g", "n", "e", "d">>
      [] s = "Connector was paused" -> <<"C", "o", "n", "n", "e", "c", "t", "o", "r", " ", "w", "a", "s", " ", "p", "a", "u", "s", "e", "d">>
      [] s = "unclear root cause, but TASK NOT CREATED" -> <<"u", "n", "c", "l", "e", "a", "r", " ", "r", "o", "o", "t", " ", "c", "a", "u", "s", "e", ",", " ", "b", "u", "t", " ", "T", "A", "S", "K", " ", "N", "O", "T", " ", "C", "R", "E", "A", "T", "E", "D">>
      [] s = "Task not created after sync" -> <<"T", "a", "s", "k", " ", "n", "o", "t", " ", "c", "r", "e", "a", "t", "e", "d", " ", "a", "f", "t", "e", "r", " ", "s", "y", "n", "c">>
      [] s = "Pipeline shows old data" -> <<"P", "i", "p", "e", "l", "i", "n", "e", " ", "s", "h", "o", "w", "s", " ", "o", "l", "d", " ", "d", "a", "t", "a">>
      [] s = "Exception not handled" -> <<"E", "x", "c", "e", "p", "t", "i", "o", "n", " ", "n", "o", "t", " ", "h", "a", "n", "d", "l", "e", "d">>
      [] s = "Yes" -> <<"Y", "e", "s">>
      [] s = "No" -> <<"N", "o">>
      [] s = "yes, a code fix is needed" -> <<"y", "e", "s", ",", " ", "a", " ", "c", "o", "d", "e", " ", "f", "i", "x", " ", "i", "s", " ", "n", "e", "e", "d", "e", "d">>
      [] s = "YES" -> <<"Y", "E", "S">>
      [] s = " " -> <<" ">>
      [] s = "OpenAI API error in Phase 1: " -> <<"O", "p", "e", "n", "A", "I", " ", "A", "P", "I", " ", "e", "r", "r", "o", "r", " ", "i", "n", " ", "P", "h", "a", "s", "e", " ", "1", ":", " ">>
      [] s = "OpenAI API error in Phase 2: " -> <<"O", "p", "e", "n", "A", "I", " ", "A", "P", "I", " ", "e", "r", "r", "o", "r", " ", "i", "n", " ", "P", "h", "a", "s", "e", " ", "2", ":", " ">>
      [] s = "OpenAI API error in Phase 3 validation: " -> <<"O", "p", "e", "n", "A", "I", " ", "A", "P", "I", " ", "e", "r", "r", "o", "r", " ", "i", "n", " ", "P", "h", "a", "s", "e", " ", "3", " ", "v", "a", "l", "i", "d", "a", "t", "i", "o", "n", ":", " ">>
      [] s = "Issue Description" -> <<"I", "s", "s", "u", "e", " ", "D", "e", "s", "c", "r", "i", "p", "t", "i", "o", "n">>
      [] s = "Root Cause" -> <<"R", "o", "o", "t", " ", "C", "a", "u", "s", "e">>
      [] s = "Issue Theme" -> <<"I", "s", "s", "u", "e", " ", "T", "h", "e", "m", "e">>
      [] s = "Root Cause Theme" -> <<"R", "o", "o", "t", " ", "C", "a", "u", "s", "e", " ", "T", "h", "e", "m", "e">>
      [] s = "Test Case Needed" -> <<"T", "e", "s", "t", " ", "C", "a", "s", "e", " ", "N", "e", "e", "d", "e", "d">>
      [] s = "Regression Test Needed" -> <<"R", "e", "g", "r", "e", "s", "s", "i", "o", "n", " ", "T", "e", "s", "t", " ", "N", "e", "e", "d", "e", "d">>
      [] s = "Number of Test Cases" -> <<"N", "u", "m", "b", "e", "r", " ", "o", "f", " ", "T", "e", "s", "t", " ", "C", "a", "s", "e", "s">>
      [] s = "Test Case " -> <<"T", "e", "s", "t", " ", "C", "a", "s", "e", " ">>
      [] s = "Test Case 1" -> <<"T", "e", "s", "t", " ", "C", "a", "s", "e", " ", "1">>
      [] s = "Test Case 2" -> <<"T", "e", "s", "t", " ", "C", "a", "s", "e", " ", "2">>
      [] s = "Test Case 3" -> <<"T", "e", "s", "t", " ", "C", "a", "s", "e", " ", "3">>
      [] s = "Test Case 4" -> <<"T", "e", "s", "t", " ", "C", "a", "s", "e", " ", "4">>
      [] s = "Test Case 5" -> <<"T", "e", "s", "t", " ", "C", "a", "s", "e", " ", "5">>
      [] s = "Test Case Description" -> <<"T", "e", "s", "t", " ", "C", "a", "s", "e", " ", "D", "e", "s", "c", "r", "i", "p", "t", "i", "o", "n">>
      [] s = "Test Case Steps" -> <<"T", "e", "s", "t", " ", "C", "a", "s", "e", " ", "S", "t", "e", "p", "s">>
      [] s = "Recommended Solution Approach" -> <<"R", "e", "c", "o", "m", "m", "e", "n", "d", "e", "d", " ", "S", "o", "l", "u", "t", "i", "o", "n", " ", "A", "p", "p", "r", "o", "a", "c", "h">>
      [] s = "Additional Test Scenarios" -> <<"A", "d", "d", "i", "t", "i", "o", "n", "a", "l", " ", "T", "e", "s", "t", " ", "S", "c", "e", "n", "a", "r", "i", "o", "s">>
      [] s = "Title" -> <<"T", "i", "t", "l", "e">>
      [] s = "Description" -> <<"D", "e", "s", "c", "r", "i", "p", "t", "i", "o", "n">>
      [] s = "Steps" -> <<"S", "t", "e", "p", "s">>
      [] s = "Regression Needed" -> <<"R", "e", "g", "r", "e", "s", "s", "i", "o", "n", " ", "N", "e", "e", "d", "e", "d">>
      [] s = ":" -> <<":">>
      [] s = "X" -> <<"X">>
      [] s = "N/A" -> <<"N", "/", "A">>
      [] s = "n/a" -> <<"n", "/", "a">>
      [] s = "Not applicable" -> <<"N", "o", "t", " ", "a", "p", "p", "l", "i", "c", "a", "b", "l", "e">>
      [] s = "NOT APPLICABLE" -> <<"N", "O", "T", " ", "A", "P", "P", "L", "I", "C", "A", "B", "L", "E">>
      [] s = "Yes, it is not applicable elsewhere" -> <<"Y", "e", "s", ",", " ", "i", "t", " ", "i", "s", " ", "n", "o", "t", " ", "a", "p", "p", "l", "i", "c", "a", "b", "l", "e", " ", "e", "l", "s", "e", "w", "h", "e", "r", "e">>
      [] s = "1" -> <<"1">>
      [] s = "2" -> <<"2">>
      [] s = "3 test cases" -> <<"3", " ", "t", "e", "s", "t", " ", "c", "a", "s", "e", "s">>
      [] s = "Login fails" -> <<"L", "o", "g", "i", "n", " ", "f", "a", "i", "l", "s">>
      [] s = "Open the page" -> <<"O", "p", "e", "n", " ", "t", "h", "e", " ", "p", "a", "g", "e">>
      [] s = "Fix the handler" -> <<"F", "i", "x", " ", "t", "h", "e", " ", "h", "a", "n", "d", "l", "e", "r">>
      [] s = "Test Case" -> <<"T", "e", "s", "t", " ", "C", "a", "s", "e">>
      [] s = "0" -> <<"0">>

\* str.lower() on one character
LowerChar(c) ==
    CASE c = "A" -> "a"
      [] c = "B" -> "b"
      [] c = "C" -> "c"
      [] c = "D" -> "d"
      [] c = "E" -> "e"
      [] c = "F" -> "f"
      [] c = "G" -> "g"
      [] c = "H" -> "h"
      [] c = "I" -> "i"
      [] c = "J" -> "j"
      [] c = "K" -> "k"
      [] c = "L" -> "l"
      [] c = "M" -> "m"
      [] c = "N" -> "n"
      [] c = "O" -> "o"
      [] c = "P" -> "p"
      [] c = "Q" -> "q"
      [] c = "R" -> "r"
      [] c = "S" -> "s"
      [] c = "T" -> "t"
      [] c = "U" -> "u"
      [] c = "V" -> "v"
      [] c = "W" -> "w"
      [] c = "X" -> "x"
      [] c = "Y" -> "y"
      [] c = "Z" -> "z"
      [] OTHER -> c

\* str.upper() on one character
UpperChar(c) ==
    CASE c = "a" -> "A"
      [] c = "b" -> "B"
      [] c = "c" -> "C"
      [] c = "d" -> "D"
      [] c = "e" -> "E"
      [] c = "f" -> "F"
      [] c = "g" -> "G"
      [] c = "h" -> "H"
      [] c = "i" -> "I"
      [] c = "j" -> "J"
      [] c = "k" -> "K"
      [] c = "l" -> "L"
      [] c = "m" -> "M"
      [] c = "n" -> "N"
      [] c = "o" -> "O"
      [] c = "p" -> "P"
      [] c = "q" -> "Q"
      [] c = "r" -> "R"
      [] c = "s" -> "S"
      [] c = "t" -> "T"
      [] c = "u" -> "U"
      [] c = "v" -> "V"
      [] c = "w" -> "W"
      [] c = "x" -> "X"
      [] c = "y" -> "Y"
      [] c = "z" -> "Z"
      [] OTHER -> c

\* text.lower()
Lower(t) == [i \in 1..Len(t) |-> LowerChar(t[i])]

\* text.upper()
Upper(t) == [i \in 1..Len(t) |-> UpperChar(t[i])]

\* p in t, on character sequences
IsSubstring(p, t) ==
    \E i \in 1..(Len(t) - Len(p) + 1) : SubSeq(t, i, i + Len(p) - 1) = p

\* t.startswith(p), on character sequences
StartsWith(t, p) ==
    Len(t) >= Len(p) /\ SubSeq(t, 1, Len(p)) = p

\* any(phrase in text for phrase in phrases)
AnyPhraseIn(phrases, t) ==
    \E phrase \in phrases : IsSubstring(Chars(phrase), t)

\* text.upper().startswith('YES')
StartsWithYes(text) == StartsWith(Upper(Chars(text)), Chars("YES"))

(***************************************************************************)
(* The gateway (OpenAI client) and the parsed responses.                   *)
(***************************************************************************)

\* what a gateway call raises: an OpenAIError (timeout, provider error) or
\* any other exception (a response without content)
GatewayErrors ==
    [openai : BOOLEAN, where : {""}, len : ErrLens]

\* except OpenAIError as e: raise Exception(f"<prefix>{str(e)}")
Wrap(e, prefix) ==
    IF e.openai
    THEN [openai |-> FALSE, where |-> prefix,
          len |-> Len(Chars(prefix)) + e.len]
    ELSE e

\* _parse_phase1_response of the possible gateway outputs
Phase1Outputs ==
    {[issue_description |-> i,
      root_cause |-> S(r),
      test_case_needed |-> StartsWithYes(a),
      test_case_needed_reason |-> S(a)] :
        i \in IssueTexts, r \in RootCauseTexts, a \in AnswerTexts}

\* the test cases _parse_phase2_response extracts from the output of the
\* given call
TestCases(n, origin) ==
    [k \in 1..n |-> [title |-> "title", description |-> "description",
                     steps |-> "steps", origin |-> origin, number |-> k]]

\* _parse_phase2_response: the result dict built from an output with n test
\* cases and from the ticket analysis it was called with
parse_phase2_response(n, analysis, origin) ==
    [issue_description |-> analysis.issue_description,
     root_cause |-> analysis.root_cause,
     test_case_needed |-> analysis.test_case_needed,
     test_case_needed_reason |-> analysis.test_case_needed_reason,
     regression_test_needed |-> "None",
     regression_test_needed_reason |-> "",
     test_cases |-> TestCases(n, origin),
     num_test_cases |-> n,
     test_case_description |-> IF n > 0 THEN "description" ELSE "",
     test_case_steps |-> IF n > 0 THEN "steps" ELSE "",
     recommended_solution |-> "solution",
     additional_test_scenarios |-> "scenarios"]

\* _parse_validation_response of the possible gateway outputs; the parser
\* leaves regeneration_feedback empty unless regeneration is needed and
\* fills in a default when it is needed and missing
ValidationOutputs ==
    {[validation_passed |-> p,
      overall_assessment |-> "assessment",
      critical_issues |-> c,
      minor_issues |-> m,
      regeneration_needed |-> g,
      regeneration_feedback |-> IF g THEN "feedback" ELSE ""] :
        p \in BOOLEAN, g \in BOOLEAN,
        c \in {<<>>, <<S("critical issue")>>},
        m \in {<<>>, <<S("minor issue")>>}}

\* _regenerate_test_cases_with_feedback: the analysis whose root cause has
\* the feedback appended, which generate_test_case_with_solutions is given
EnhancedAnalysis(analysis, fb) ==
    [analysis EXCEPT !.root_cause = SFeedback(@.text, fb)]

\* a Python bool in a field that can also hold None
BoolStr(b) == IF b THEN "True" ELSE "False"

(***************************************************************************)
(* get_ticket_analysis (src/app.py).                                       *)
(***************************************************************************)

\* root_cause.lower()
root_cause_lower(analysis) == Lower(Chars(analysis.root_cause.text))

\* issue_description.lower()
issue_description_lower(analysis) == Lower(Chars(analysis.issue_description))

\* f"{root_cause_lower} {issue_description_lower}"
combined_text(analysis) ==
    root_cause_lower(analysis) \o Chars(" ") \o issue_description_lower(analysis)

root_cause_not_identified(analysis) ==
    AnyPhraseIn(root_cause_not_identified_phrases, root_cause_lower(analysis))

\* a functional gap looked for in the root cause as well as in the issue
functional_gap_indicators_combined(analysis) ==
    AnyPhraseIn(functional_gap_phrases, combined_text(analysis))

functional_gap_indicators(analysis) ==
    AnyPhraseIn(functional_gap_phrases, issue_description_lower(analysis))

code_bug_indicators(analysis) ==
    AnyPhraseIn(code_bug_phrases, root_cause_lower(analysis))

is_pure_user_mistake(analysis) ==
    /\ AnyPhraseIn(user_mistake_phrases, combined_text(analysis))
    /\ ~code_bug_indicators(analysis)

is_product_limitation(analysis) ==
    /\ AnyPhraseIn(product_limitation_phrases, combined_text(analysis))
    /\ ~code_bug_indicators(analysis)

\* an override that looks for a code bug before it asks whether the root
\* cause was identified
ApplyOverride_bug_first(analysis) ==
    IF code_bug_indicators(analysis)
    THEN [analysis EXCEPT
            !.test_case_needed = TRUE,
            !.test_case_needed_reason = S("Code bug identified")]
    ELSE IF root_cause_not_identified(analysis)
            /\ functional_gap_indicators(analysis)
    THEN [analysis EXCEPT
            !.test_case_needed = TRUE,
            !.test_case_needed_reason = S("Functional gap identified")]
    ELSE IF root_cause_not_identified(analysis)
    THEN [analysis EXCEPT
            !.test_case_needed = FALSE,
            !.test_case_needed_reason =
                S("Root cause not identified and no clear functional gap")]
    ELSE IF is_pure_user_mistake(analysis) \/ is_product_limitation(analysis)
    THEN [analysis EXCEPT
            !.test_case_needed = FALSE,
            !.test_case_needed_reason =
                S("User mistake or product limitation")]
    ELSE analysis

\* the keyword override of Phase 1's answer
ApplyOverride(analysis) ==
    IF root_cause_not_identified(analysis) /\ functional_gap_indicators(analysis)
    THEN [analysis EXCEPT
            !.test_case_needed = TRUE,
            !.test_case_needed_reason = S("Functional gap identified")]
    ELSE IF root_cause_not_identified(analysis)
            /\ ~functional_gap_indicators(analysis)
    THEN [analysis EXCEPT
            !.test_case_needed = FALSE,
            !.test_case_needed_reason =
                S("Root cause not identified and no clear functional gap")]
    ELSE IF code_bug_indicators(analysis)
    THEN [analysis EXCEPT
            !.test_case_needed = TRUE,
            !.test_case_needed_reason = S("Code bug identified")]
    ELSE IF is_pure_user_mistake(analysis) \/ is_product_limitation(analysis)
    THEN [analysis EXCEPT
            !.test_case_needed = FALSE,
            !.test_case_needed_reason =
                S("User mistake or product limitation")]
    ELSE analysis

\* an early return that leaves the test case fields blank
NotNeededResult_blank(analysis) ==
    [issue_description |-> analysis.issue_description,
     root_cause |-> analysis.root_cause,
     test_case_needed |-> FALSE,
     test_case_needed_reason |-> analysis.test_case_needed_reason,
     regression_test_needed |-> "None",
     regression_test_needed_reason |-> "",
     test_cases |-> <<>>,
     num_test_cases |-> 0,
     test_case_description |-> "",
     test_case_steps |-> "",
     recommended_solution |-> "",
     additional_test_scenarios |-> ""]


\* the dict returned when no test case is needed
NotNeededResult(analysis) ==
    [issue_description |-> analysis.issue_description,
     root_cause |-> analysis.root_cause,
     test_case_needed |-> FALSE,
     test_case_needed_reason |-> analysis.test_case_needed_reason,
     regression_test_needed |-> "None",
     regression_test_needed_reason |-> "N/A - Test case not needed",
     test_cases |-> <<>>,
     num_test_cases |-> 0,
     test_case_description |-> "N/A - Test case not needed",
     test_case_steps |-> "N/A - Test case not needed",
     recommended_solution |-> "N/A - Test case not needed",
     additional_test_scenarios |-> "N/A - Test case not needed"]

\* the dict returned by the outer except handler
ErrorResult(e) ==
    [issue_description |-> "Analysis failed due to error",
     root_cause |-> SErr("Unable to analyze: ", Truncate(e)),
     test_case_needed |-> FALSE,
     test_case_needed_reason |-> SErr("Analysis failed: ", Truncate(e)),
     regression_test_needed |-> "None",
     regression_test_needed_reason |-> "N/A - Analysis failed",
     test_cases |-> <<>>,
     num_test_cases |-> 0,
     test_case_description |-> "Analysis failed",
     test_case_steps |-> "Analysis failed",
     recommended_solution |-> "Please retry the analysis",
     additional_test_scenarios |-> ""]

\* has_test_cases: whether Phase 2 produced any test case
has_test_cases(results) ==
    \/ Len(results.test_cases) > 0
    \/ results.num_test_cases > 0
    \/ results.test_case_description
         \notin {"N/A - Test case not needed", "N/A", ""}

\* d[k] = v for the four validation keys of the result dict
WithValidation(results, passed, issues, summary, attempted) ==
    [k \in (DOMAIN results) \cup
           {"validation_passed", "validation_issues",
            "validation_summary", "regeneration_attempted"} |->
        CASE k = "validation_passed" -> passed
          [] k = "validation_issues" -> issues
          [] k = "validation_summary" -> summary
          [] k = "regeneration_attempted" -> attempted
          [] OTHER -> results[k]]

\* enhanced_results['validation_critical_issues'] = critical_issues, when
\* the list is not empty
WithCritical(results, critical_issues) ==
    IF critical_issues = <<>> THEN results
    ELSE [k \in (DOMAIN results) \cup {"validation_critical_issues"} |->
            IF k = "validation_critical_issues" THEN critical_issues
            ELSE results[k]]

Phase1Prefix == "OpenAI API error in Phase 1: "

Phase2Prefix == "OpenAI API error in Phase 2: "

Phase3Prefix == "OpenAI API error in Phase 3 validation: "

MissingFeedback ==
    "No test cases were generated in Phase 2. Please generate appropriate test cases for the issue and root cause."

PipelineInit ==
    /\ openai_service \in BOOLEAN
    /\ ppc = "entry"
    /\ ticket_analysis = <<>>
    /\ enhanced_results = <<>>
    /\ validation_results = <<>>
    /\ gateway_calls = <<>>
    /\ result = <<>>
    /\ raised = <<>>

\* the gateway call of the given kind has been made; err is <<>> when it
\* returned and <<e>> when it raised e
Called(call, err) ==
    gateway_calls' =
        Append(gateway_calls, [call |-> call, ok |-> err = <<>>, err |-> err])

\* return the dict
Return(d) ==
    /\ result' = <<d>>
    /\ ppc' = "returned"

\* get_ticket_analysis up to Phase 1: raise when the service is not set up
Enter ==
    /\ ppc = "entry"
    /\ IF ~openai_service
       THEN /\ raised' = <<"OPENAI_API_KEY is not set. Please set it in your environment variables.">>
            /\ ppc' = "raised"
       ELSE /\ ppc' = "phase1"
            /\ UNCHANGED raised
    /\ UNCHANGED <<openai_service, ticket_analysis, enhanced_results,
                   validation_results, gateway_calls, result>>
    /\ UNCHANGED bulkVars
    /\ UNCHANGED extractVars
    /\ UNCHANGED fetchVars

\* a Phase 1 failure that leaves get_ticket_analysis as an exception
Phase1Fails_raises(e) ==
    /\ ppc = "phase1"
    /\ Called("classify", <<e>>)
    /\ raised' = <<"OpenAI API error in Phase 1">>
    /\ ppc' = "raised"
    /\ UNCHANGED <<openai_service, ticket_analysis, enhanced_results,
                   validation_results, result>>
    /\ UNCHANGED bulkVars
    /\ UNCHANGED extractVars
    /\ UNCHANGED fetchVars

\* analyze_ticket_phase1 raises: the outer handler returns the error dict
Phase1Fails(e) ==
    /\ ppc = "phase1"
    /\ Called("classify", <<e>>)
    /\ Return(ErrorResult(Wrap(e, Phase1Prefix)))
    /\ UNCHANGED <<openai_service, ticket_analysis, enhanced_results,
                   validation_results, raised>>
    /\ UNCHANGED bulkVars
    /\ UNCHANGED extractVars
    /\ UNCHANGED fetchVars

\* Phase 1 returns and Phase 2 follows whatever test_case_needed says
Phase1Returns_always_generates(out) ==
    /\ ppc = "phase1"
    /\ Called("classify", <<>>)
    /\ ticket_analysis' = <<ApplyOverride(out)>>
    /\ ppc' = "phase2"
    /\ UNCHANGED <<openai_service, enhanced_results, validation_results,
                   result, raised>>
    /\ UNCHANGED bulkVars
    /\ UNCHANGED extractVars
    /\ UNCHANGED fetchVars

\* analyze_ticket_phase1 returns: the override, then the early return or
\* on to Phase 2
Phase1Returns(out) ==
    /\ ppc = "phase1"
    /\ Called("classify", <<>>)
    /\ LET analysis == ApplyOverride(out)
       IN /\ ticket_analysis' = <<analysis>>
          /\ IF ~analysis.test_case_needed
             THEN Return(NotNeededResult(analysis))
             ELSE /\ ppc' = "phase2"
                  /\ UNCHANGED result
    /\ UNCHANGED <<openai_service, enhanced_results, validation_results, raised>>
    /\ UNCHANGED bulkVars
    /\ UNCHANGED extractVars
    /\ UNCHANGED fetchVars

\* a Phase 2 failure that leaves get_ticket_analysis as an exception
Phase2Fails_raises(e) ==
    /\ ppc = "phase2"
    /\ Called("generate", <<e>>)
    /\ raised' = <<"OpenAI API error in Phase 2">>
    /\ ppc' = "raised"
    /\ UNCHANGED <<openai_service, ticket_analysis, enhanced_results,
                   validation_results, result>>
    /\ UNCHANGED bulkVars
    /\ UNCHANGED extractVars
    /\ UNCHANGED fetchVars

\* generate_test_case_with_solutions raises: the outer handler returns the
\* error dict
Phase2Fails(e) ==
    /\ ppc = "phase2"
    /\ Called("generate", <<e>>)
    /\ Return(ErrorResult(Wrap(e, Phase2Prefix)))
    /\ UNCHANGED <<openai_service, ticket_analysis, enhanced_results,
                   validation_results, raised>>
    /\ UNCHANGED bulkVars
    /\ UNCHANGED extractVars
    /\ UNCHANGED fetchVars

\* generate_test_case_with_solutions returns the parsed test cases
Phase2Returns(n) ==
    /\ ppc = "phase2"
    /\ Called("generate", <<>>)
    /\ enhanced_results' =
          <<parse_phase2_response(n, ticket_analysis[1], "generate")>>
    /\ ppc' = "phase3"
    /\ UNCHANGED <<openai_service, ticket_analysis, validation_results,
                   result, raised>>
    /\ UNCHANGED bulkVars
    /\ UNCHANGED extractVars
    /\ UNCHANGED fetchVars

\* a Phase 3 that validates whatever Phase 2 produced
Phase3Check_validates ==
    /\ ppc = "phase3"
    /\ ppc' = "validate"
    /\ UNCHANGED <<openai_service, ticket_analysis, enhanced_results,
                   validation_results, gateway_calls, result, raised>>
    /\ UNCHANGED bulkVars
    /\ UNCHANGED extractVars
    /\ UNCHANGED fetchVars


\* Phase 3: were test cases generated?
Phase3Check ==
    /\ ppc = "phase3"
    /\ ppc' = IF has_test_cases(enhanced_results[1])
              THEN "validate" ELSE "regenerate_missing"
    /\ UNCHANGED <<openai_service, ticket_analysis, enhanced_results,
                   validation_results, gateway_calls, result, raised>>
    /\ UNCHANGED bulkVars
    /\ UNCHANGED extractVars
    /\ UNCHANGED fetchVars

\* a regeneration whose output goes through Phase 3 again
RegenerateMissingReturns_retry(n) ==
    /\ ppc = "regenerate_missing"
    /\ Called("regenerate", <<>>)
    /\ enhanced_results' =
          <<parse_phase2_response(
              n, EnhancedAnalysis(ticket_analysis[1], MissingFeedback),
              "regenerate")>>
    /\ ppc' = "phase3"
    /\ UNCHANGED <<openai_service, ticket_analysis, validation_results,
                   result, raised>>
    /\ UNCHANGED bulkVars
    /\ UNCHANGED extractVars
    /\ UNCHANGED fetchVars

\* no test cases: _regenerate_test_cases_with_feedback returns
RegenerateMissingReturns(n) ==
    /\ ppc = "regenerate_missing"
    /\ Called("regenerate", <<>>)
    /\ Return(WithValidation(
          parse_phase2_response(
              n, EnhancedAnalysis(ticket_analysis[1], MissingFeedback),
              "regenerate"),
          "True", <<>>,
          S("Test cases regenerated - no test cases were generated in Phase 2"),
          TRUE))
    /\ UNCHANGED <<openai_service, ticket_analysis, enhanced_results,
                   validation_results, raised>>
    /\ UNCHANGED bulkVars
    /\ UNCHANGED extractVars
    /\ UNCHANGED fetchVars

\* no test cases: _regenerate_test_cases_with_feedback raises
RegenerateMissingFails(e) ==
    /\ ppc = "regenerate_missing"
    /\ Called("regenerate", <<e>>)
    /\ Return(WithValidation(
          enhanced_results[1],
          "False", <<S("No test cases generated and regeneration failed")>>,
          SErr("No test cases generated. Regeneration failed: ",
               Truncate(Wrap(e, Phase2Prefix))),
          TRUE))
    /\ UNCHANGED <<openai_service, ticket_analysis, enhanced_results,
                   validation_results, raised>>
    /\ UNCHANGED bulkVars
    /\ UNCHANGED extractVars
    /\ UNCHANGED fetchVars

\* a validation failure handled by the outer handler
ValidateFails_outer(e) ==
    /\ ppc = "validate"
    /\ Called("validate", <<e>>)
    /\ Return(ErrorResult(Wrap(e, Phase3Prefix)))
    /\ UNCHANGED <<openai_service, ticket_analysis, enhanced_results,
                   validation_results, raised>>
    /\ UNCHANGED bulkVars
    /\ UNCHANGED extractVars
    /\ UNCHANGED fetchVars

\* validate_test_cases: the validation call raises
ValidateFails(e) ==
    /\ ppc = "validate"
    /\ Called("validate", <<e>>)
    /\ Return(WithValidation(
          enhanced_results[1],
          "None", <<>>,
          SErr("Validation failed: ", Truncate(Wrap(e, Phase3Prefix))),
          FALSE))
    /\ UNCHANGED <<openai_service, ticket_analysis, enhanced_results,
                   validation_results, raised>>
    /\ UNCHANGED bulkVars
    /\ UNCHANGED extractVars
    /\ UNCHANGED fetchVars

\* validate_test_cases: the validation call returns; regeneration inside
\* validate_test_cases when it is needed, else the validation flags
ValidateReturns(v) ==
    /\ ppc = "validate"
    /\ Called("validate", <<>>)
    /\ validation_results' = <<v>>
    /\ IF v.regeneration_needed
       THEN /\ ppc' = "regenerate_feedback"
            /\ UNCHANGED result
       ELSE Return(WithCritical(
              WithValidation(
                  enhanced_results[1],
                  BoolStr(v.validation_passed), v.minor_issues,
                  S(v.overall_assessment),
                  FALSE),
              v.critical_issues))
    /\ UNCHANGED <<openai_service, ticket_analysis, enhanced_results, raised>>
    /\ UNCHANGED bulkVars
    /\ UNCHANGED extractVars
    /\ UNCHANGED fetchVars

\* a regeneration after validation whose output is validated again
RegenerateFeedbackReturns_revalidates(n) ==
    /\ ppc = "regenerate_feedback"
    /\ Called("regenerate", <<>>)
    /\ enhanced_results' =
          <<parse_phase2_response(
              n, EnhancedAnalysis(ticket_analysis[1],
                                  validation_results[1].regeneration_feedback),
              "regenerate")>>
    /\ ppc' = IF n > 0 THEN "validate" ELSE "returned"
    /\ result' = IF n > 0 THEN result
                 ELSE <<WithValidation(enhanced_results'[1], "True", <<>>,
                            S("Test cases regenerated based on validation feedback"),
                            TRUE)>>
    /\ UNCHANGED <<openai_service, ticket_analysis, validation_results, raised>>
    /\ UNCHANGED bulkVars
    /\ UNCHANGED extractVars
    /\ UNCHANGED fetchVars


\* validate_test_cases: the regeneration returns and replaces the results
RegenerateFeedbackReturns(n) ==
    /\ ppc = "regenerate_feedback"
    /\ Called("regenerate", <<>>)
    /\ LET feedback == validation_results[1].regeneration_feedback
           enhanced_ticket_analysis ==
              [issue_description |-> ticket_analysis[1].issue_description,
               root_cause |-> ticket_analysis[1].root_cause,
               test_case_needed |-> TRUE,
               test_case_needed_reason |->
                  SFeedback("Validation feedback: ", feedback)]
       IN Return(WithValidation(
              parse_phase2_response(
                  n, EnhancedAnalysis(enhanced_ticket_analysis, feedback),
                  "regenerate"),
              "True", <<>>,
              S("Test cases regenerated based on validation feedback"),
              TRUE))
    /\ UNCHANGED <<openai_service, ticket_analysis, enhanced_results,
                   validation_results, raised>>
    /\ UNCHANGED bulkVars
    /\ UNCHANGED extractVars
    /\ UNCHANGED fetchVars

\* validate_test_cases: the regeneration raises; the exception leaves
\* validate_test_cases and the Phase 3 handler keeps the Phase 2 results
RegenerateFeedbackFails(e) ==
    /\ ppc = "regenerate_feedback"
    /\ Called("regenerate", <<e>>)
    /\ Return(WithValidation(
          enhanced_results[1],
          "None", <<>>,
          SErr("Validation failed: ", Truncate(Wrap(e, Phase2Prefix))),
          FALSE))
    /\ UNCHANGED <<openai_service, ticket_analysis, enhanced_results,
                   validation_results, raised>>
    /\ UNCHANGED bulkVars
    /\ UNCHANGED extractVars
    /\ UNCHANGED fetchVars

PipelineNext ==
    \/ Enter
    \/ \E e \in GatewayErrors : Phase1Fails(e)
    \/ \E out \in Phase1Outputs : Phase1Returns(out)
    \/ \E e \in GatewayErrors : Phase2Fails(e)
    \/ \E n \in 0..MaxTestCases : Phase2Returns(n)
    \/ Phase3Check
    \/ \E n \in 0..MaxTestCases : RegenerateMissingReturns(n)
    \/ \E e \in GatewayErrors : RegenerateMissingFails(e)
    \/ \E e \in GatewayErrors : ValidateFails(e)
    \/ \E v \in ValidationOutputs : ValidateReturns(v)
    \/ \E n \in 0..MaxTestCases : RegenerateFeedbackReturns(n)
    \/ \E e \in GatewayErrors : RegenerateFeedbackFails(e)


(***************************************************************************)
(* The structured text extractor (src/services/openai_service.py,          *)
(* _parse_phase1_response and _parse_phase2_response).  A gateway response *)
(* is the sequence of its characters.                                      *)
(***************************************************************************)

\* largest number of labelled sections in a Phase 1 response text
MaxSections == 3

\* the positions at which p occurs in t
Occurrences(p, t) ==
    {i \in 1..(Len(t) - Len(p) + 1) : SubSeq(t, i, i + Len(p) - 1) = p}

\* t.find(p) + 1: the first position of p in t, 0 when p is not in t
Find(p, t) ==
    LET occ == Occurrences(p, t)
    IN  IF occ = {} THEN 0 ELSE CHOOSE i \in occ : \A j \in occ : i <= j

\* t.split(p)[0]
Before(t, p) ==
    LET i == Find(p, t)
    IN  IF i = 0 THEN t ELSE SubSeq(t, 1, i - 1)

\* t[t.find(p) + len(p):], for p in t
After(t, p) ==
    SubSeq(t, Find(p, t) + Len(p), Len(t))

\* t.split(p)[1], for p in t
SecondPart(t, p) == Before(After(t, p), p)

\* str.isspace() on one character
IsSpace(c) == c \in {" ", "\n", "\t", "\r"}

\* t.strip()
Strip(t) ==
    LET idx == {i \in 1..Len(t) : ~IsSpace(t[i])}
    IN  IF idx = {} THEN <<>>
        ELSE SubSeq(t, CHOOSE i \in idx : \A j \in idx : i <= j,
                       CHOOSE i \in idx : \A j \in idx : j <= i)

\* f'{key}:'
Marker(key) == Chars(key) \o Chars(":")

\* extract_section: the loop that cuts start at each other section marker
RECURSIVE CutAtSections(_, _, _)
CutAtSections(key, stop_at, start) ==
    IF stop_at = <<>> THEN start
    ELSE LET section == Head(stop_at)
         IN  CutAtSections(key, Tail(stop_at),
                 IF section # key /\ Find(Marker(section), start) # 0
                 THEN Strip(Before(start, Marker(section)))
                 ELSE start)

\* an extract_section that reads on past the next "<key>:"
extract_section_past_key(key, text, stop_at) ==
    IF Find(Marker(key), text) # 0
    THEN CutAtSections(key, stop_at, Strip(After(text, Marker(key))))
    ELSE <<>>

\* extract_section(key, text, stop_at) of both parsers
extract_section(key, text, stop_at) ==
    IF Find(Marker(key), text) # 0
    THEN CutAtSections(key, stop_at, Strip(SecondPart(text, Marker(key))))
    ELSE <<>>

\* next_sections of the Phase 1 extract_section
next_sections ==
    <<"Issue Description", "Root Cause", "Issue Theme", "Root Cause Theme",
      "Test Case Needed">>

\* the default stop_at of the Phase 2 extract_section
default_stop_at ==
    <<"Regression Test Needed", "Number of Test Cases",
      "Test Case 1", "Test Case 2", "Test Case 3", "Test Case 4", "Test Case 5",
      "Test Case Description", "Test Case Steps",
      "Recommended Solution Approach", "Additional Test Scenarios">>

\* text.upper().startswith('YES') of a character sequence
UpperStartsWithYes(t) == StartsWith(Upper(t), Chars("YES"))

\* _parse_phase1_response
parse_phase1_response(text) ==
    LET test_case_needed_text ==
            Strip(extract_section("Test Case Needed", text, next_sections))
    IN  [issue_description |->
             extract_section("Issue Description", text, next_sections),
         root_cause |-> extract_section("Root Cause", text, next_sections),
         issue_theme |->
             Strip(extract_section("Issue Theme", text, next_sections)),
         root_cause_theme |->
             Strip(extract_section("Root Cause Theme", text, next_sections)),
         test_case_needed |-> UpperStartsWithYes(test_case_needed_text),
         test_case_needed_reason |-> test_case_needed_text]

\* str(number) for one digit
DigitChar(d) ==
    CASE d = 0 -> "0" [] d = 1 -> "1" [] d = 2 -> "2" [] d = 3 -> "3"
      [] d = 4 -> "4" [] d = 5 -> "5" [] d = 6 -> "6" [] d = 7 -> "7"
      [] d = 8 -> "8" [] d = 9 -> "9"

\* int(c) for a digit character, -1 for any other character
DigitValue(c) ==
    IF \E d \in 0..9 : DigitChar(d) = c
    THEN CHOOSE d \in 0..9 : DigitChar(d) = c
    ELSE -1

\* int() of the run of digits of t that starts at position i
RECURSIVE DigitRun(_, _, _)
DigitRun(t, i, acc) ==
    IF i > Len(t) \/ DigitValue(t[i]) < 0 THEN acc
    ELSE DigitRun(t, i + 1, 10 * acc + DigitValue(t[i]))

\* re.search(r'(\d+)', t): the number read, the default 1 without a match
NumberIn(t) ==
    LET idx == {i \in 1..Len(t) : DigitValue(t[i]) >= 0}
    IN  IF idx = {} THEN 1
        ELSE DigitRun(t, CHOOSE i \in idx : \A j \in idx : i <= j, 0)

\* f'Test Case {number}:'
test_case_marker(number) ==
    Chars("Test Case ") \o <<DigitChar(number)>> \o Chars(":")

\* extract_test_case: the text of the block of the numbered test case, up to
\* the nearest of the next markers
test_case_text(number, text) ==
    LET section_text ==
            SubSeq(text, Find(test_case_marker(number), text), Len(text))
        next_markers ==
            {test_case_marker(number + 1),
             Marker("Recommended Solution Approach"),
             Marker("Additional Test Scenarios")}
        found == {Find(m, section_text) : m \in next_markers} \ {0}
        end_idx ==
            IF found = {} THEN Len(section_text)
            ELSE (CHOOSE i \in found : \A j \in found : i <= j) - 1
    IN  SubSeq(section_text, 1, end_idx)

\* extract_test_case of a number whose marker is in the text
extract_test_case(number, text) ==
    LET block == test_case_text(number, text)
        regression_text ==
            Strip(extract_section("Regression Needed", block,
                                  <<"Title", "Description", "Steps">>))
    IN  [title |->
             Strip(extract_section("Title", block,
                       <<"Description", "Steps", "Regression Needed">>)),
         description |->
             Strip(extract_section("Description", block,
                       <<"Steps", "Regression Needed">>)),
         steps |->
             Strip(extract_section("Steps", block,
                       <<"Regression Needed", "Title", "Description">>)),
         regression_needed |->
             IF regression_text # <<>>
             THEN BoolStr(UpperStartsWithYes(regression_text))
             ELSE "None",
         regression_reason |-> regression_text]

\* the loop of _parse_phase2_response over the numbers 1 .. last
RECURSIVE ExtractTestCases(_, _, _)
ExtractTestCases(text, i, last) ==
    IF i > last THEN <<>>
    ELSE IF Find(test_case_marker(i), text) = 0
         THEN ExtractTestCases(text, i + 1, last)
         ELSE <<extract_test_case(i, text)>>
                  \o ExtractTestCases(text, i + 1, last)

\* _parse_phase2_response: the fields it reads from the response text
parse_phase2_text(text) ==
    LET regression_text ==
            Strip(extract_section("Regression Test Needed", text,
                                  default_stop_at))
        regression_needed ==
            IF ~IsSubstring(Chars("N/A"), Upper(regression_text))
            THEN BoolStr(UpperStartsWithYes(regression_text))
            ELSE "None"
        num_test_cases ==
            NumberIn(Strip(extract_section("Number of Test Cases", text,
                                           default_stop_at)))
        numbered ==
            ExtractTestCases(text, 1, Min(num_test_cases + 1, 6) - 1)
        test_case_desc ==
            extract_section("Test Case Description", text, default_stop_at)
        test_case_steps ==
            extract_section("Test Case Steps", text, default_stop_at)
        test_cases ==
            IF numbered = <<>> /\ (test_case_desc # <<>> \/ test_case_steps # <<>>)
            THEN <<[title |-> Chars("Test Case"),
                    description |-> test_case_desc,
                    steps |-> test_case_steps,
                    regression_needed |-> regression_needed,
                    regression_reason |-> regression_text]>>
            ELSE numbered
    IN  [regression_test_needed |-> regression_needed,
         regression_test_needed_reason |-> regression_text,
         test_cases |-> test_cases,
         num_test_cases |-> Len(test_cases),
         recommended_solution |->
             extract_section("Recommended Solution Approach", text,
                             default_stop_at),
         additional_test_scenarios |->
             extract_section("Additional Test Scenarios", text,
                             default_stop_at)]

\* a response section: the label and a colon on one line, the content on
\* the next
Section(label, content) ==
    Marker(label) \o <<"\n">> \o Chars(content) \o <<"\n">>

\* the concatenation of a sequence of texts
RECURSIVE Concat(_)
Concat(texts) ==
    IF texts = <<>> THEN <<>> ELSE Head(texts) \o Concat(Tail(texts))

\* what the gateway can write under 'Test Case Needed'
NeededTexts == {"Yes", "yes, a code fix is needed", "No"}

\* what it can write under each other Phase 1 label
Phase1Contents == {"X", ""}

\* Phase 1 response texts: at most MaxSections sections, in any order and
\* with repetitions, some labels missing
Phase1Texts ==
    {Concat([i \in 1..Len(q) |->
                Section(q[i], IF q[i] = "Test Case Needed" THEN a ELSE c)]) :
        a \in NeededTexts, c \in Phase1Contents,
        q \in UNION {[1..k -> {next_sections[l] : l \in DOMAIN next_sections}] :
                         k \in 0..MaxSections}}

\* what the gateway can write under 'Regression Test Needed'
RegressionTexts == {"Yes", "No", "n/a", "Not applicable", ""}

\* what it can write under 'Regression Needed' of one test case
CaseRegressionTexts == {"Yes", "N/A", "Not applicable", ""}

\* what it can write under 'Number of Test Cases'
NumberTexts == {"", "0", "2", "3 test cases"}

\* the block of the numbered test case in a Phase 2 response
TestCaseBlock(number, regression) ==
    test_case_marker(number) \o <<"\n">>
        \o Section("Title", "Login fails")
        \o Section("Description", "X")
        \o Section("Steps", "Open the page")
        \o Section("Regression Needed", regression)

\* Phase 2 response texts: the regression answer, the announced number of
\* test cases, the blocks of the test cases 1 .. k, the solution
Phase2Texts ==
    {Section("Regression Test Needed", r)
         \o Section("Number of Test Cases", m)
         \o Concat([i \in 1..Len(q) |-> TestCaseBlock(i, q[i])])
         \o Section("Recommended Solution Approach", "Fix the handler") :
        r \in RegressionTexts, m \in NumberTexts,
        q \in UNION {[1..k -> CaseRegressionTexts] : k \in 0..MaxTestCases}}

\* no response text is being parsed
ExtractIdle ==
    /\ output = <<>>
    /\ parsed = <<>>

\* a response text has arrived from the gateway
ExtractInit ==
    /\ output \in Phase1Texts \cup Phase2Texts
    /\ parsed = <<>>

\* _parse_phase1_response(output)
ParsePhase1 ==
    /\ parsed = <<>>
    /\ parsed' = <<"phase1", parse_phase1_response(output)>>
    /\ UNCHANGED output
    /\ UNCHANGED bulkVars
    /\ UNCHANGED pipelineVars
    /\ UNCHANGED fetchVars

\* _parse_phase2_response(output, ticket_analysis, search_results)
ParsePhase2 ==
    /\ parsed = <<>>
    /\ parsed' = <<"phase2", parse_phase2_text(output)>>
    /\ UNCHANGED output
    /\ UNCHANGED bulkVars
    /\ UNCHANGED pipelineVars
    /\ UNCHANGED fetchVars

ExtractNext ==
    \/ ParsePhase1
    \/ ParsePhase2


(***************************************************************************)
(* The Zendesk fetches with retries (src/app.py,                           *)
(* fetch_zendesk_ticket_details and fetch_zendesk_ticket_comments).        *)
(***************************************************************************)

\* the max_retries both functions are called with
max_retries == 3

\* the two fetch functions
FetchFunctions == {"details", "comments"}

\* the exception classes of except (Timeout, RequestsConnectionError)
RetryableErrors == {"Timeout", "ConnectionError"}

\* the status codes Zendesk answers with
StatusCodes == {"200", "404", "500"}

\* the JSON body of a 200 answer to the include=comments request: with the
\* 'comments' key, without it, or not JSON at all
Bodies == {"comments", "no_comments", "not_json"}

\* 2 ** attempt
RECURSIVE Pow2(_)
Pow2(n) == IF n = 0 THEN 1 ELSE 2 * Pow2(n - 1)

\* no fetch is in progress
FetchIdle ==
    fetch = <<>>

\* the locals of a call at the top of its loop
FetchStart(fn) ==
    [fn |-> fn, pc |-> "request", attempt |-> 0, attempts |-> <<>>,
     requests |-> 0, waits |-> <<>>, response |-> None, raised |-> None]

\* the call returns the response of its last requests.get
FetchReturn(f, kind, status) ==
    [f EXCEPT !.pc = "returned", !.attempts = Append(@, kind),
              !.requests = @ + 1, !.response = status]

\* the last requests.get raises and the call raises an exception of the
\* given class
FetchRaise(f, kind, exception) ==
    [f EXCEPT !.pc = "raised", !.attempts = Append(@, kind),
              !.requests = @ + 1, !.raised = exception]

\* the function is called: get_auth_header raises ValueError when
\* ZENDESK_AUTH is not set, before the loop
FetchCall(fn, auth) ==
    /\ fetch = <<>>
    /\ fetch' = IF auth THEN <<FetchStart(fn)>>
                ELSE <<[FetchStart(fn) EXCEPT !.pc = "raised",
                                              !.raised = "ValueError"]>>
    /\ UNCHANGED bulkVars
    /\ UNCHANGED pipelineVars
    /\ UNCHANGED extractVars

\* requests.get returns a response
FetchResponse(status, body) ==
    /\ fetch # <<>>
    /\ fetch[1].pc = "request"
    /\ fetch' =
         IF fetch[1].fn = "details" \/ status # "200" \/ body = "comments"
         THEN <<FetchReturn(fetch[1], "response", status)>>
         ELSE IF body = "not_json"
              THEN <<FetchRaise(fetch[1], "Exception", "RequestException")>>
              ELSE <<[fetch[1] EXCEPT !.pc = "fallback", !.requests = @ + 1]>>
    /\ UNCHANGED bulkVars
    /\ UNCHANGED pipelineVars
    /\ UNCHANGED extractVars

\* the second requests.get of fetch_zendesk_ticket_comments, to the
\* comments endpoint, returns a response
FetchFallbackResponse(status) ==
    /\ fetch # <<>>
    /\ fetch[1].pc = "fallback"
    /\ fetch' = <<FetchReturn(fetch[1], "response", status)>>
    /\ UNCHANGED bulkVars
    /\ UNCHANGED pipelineVars
    /\ UNCHANGED extractVars

\* a handler of Timeout and ConnectionError that waits and retries after
\* every attempt
FetchRetryable_unbounded(kind) ==
    /\ fetch # <<>>
    /\ fetch[1].pc \in {"request", "fallback"}
    /\ fetch[1].attempt < max_retries
    /\ fetch' = <<[fetch[1] EXCEPT
                       !.pc = "sleep",
                       !.attempts = Append(@, kind),
                       !.requests = @ + 1,
                       !.waits = Append(@, Pow2(fetch[1].attempt))]>>
    /\ UNCHANGED bulkVars
    /\ UNCHANGED pipelineVars
    /\ UNCHANGED extractVars

\* a requests.get raises Timeout or ConnectionError: wait 2 ** attempt
\* seconds before the next attempt, or raise after the last one
FetchRetryable(kind) ==
    /\ fetch # <<>>
    /\ fetch[1].pc \in {"request", "fallback"}
    /\ fetch' =
         IF fetch[1].attempt < max_retries - 1
         THEN <<[fetch[1] EXCEPT
                     !.pc = "sleep",
                     !.attempts = Append(@, kind),
                     !.requests = @ + 1,
                     !.waits = Append(@, Pow2(fetch[1].attempt))]>>
         ELSE <<FetchRaise(fetch[1], kind, "RequestException")>>
    /\ UNCHANGED bulkVars
    /\ UNCHANGED pipelineVars
    /\ UNCHANGED extractVars

\* time.sleep(wait_time) returns and the loop goes to its next attempt
FetchSleepDone ==
    /\ fetch # <<>>
    /\ fetch[1].pc = "sleep"
    /\ fetch' = <<[fetch[1] EXCEPT !.pc = "request", !.attempt = @ + 1]>>
    /\ UNCHANGED bulkVars
    /\ UNCHANGED pipelineVars
    /\ UNCHANGED extractVars

\* a requests.get raises an exception of any other class
FetchOtherError ==
    /\ fetch # <<>>
    /\ fetch[1].pc \in {"request", "fallback"}
    /\ fetch' = <<FetchRaise(fetch[1], "Exception", "RequestException")>>
    /\ UNCHANGED bulkVars
    /\ UNCHANGED pipelineVars
    /\ UNCHANGED extractVars

FetchNext ==
    \/ \E fn \in FetchFunctions, auth \in BOOLEAN : FetchCall(fn, auth)
    \/ \E status \in StatusCodes, body \in Bodies : FetchResponse(status, body)
    \/ \E status \in StatusCodes : FetchFallbackResponse(status)
    \/ \E kind \in RetryableErrors : FetchRetryable(kind)
    \/ FetchSleepDone
    \/ FetchOtherError

(***************************************************************************)
(* Specifications.                                                         *)
(***************************************************************************)

\* the bulk orchestrator, no analysis call in progress
InitBulk ==
    /\ BulkInit /\ PipelineInit /\ openai_service = TRUE
    /\ ExtractIdle /\ FetchIdle

SpecBulk ==
    InitBulk /\ [][BulkNext]_vars

\* one call of get_ticket_analysis, no bulk job
InitPipeline ==
    BulkInit /\ PipelineInit /\ ExtractIdle /\ FetchIdle

SpecPipeline ==
    InitPipeline /\ [][PipelineNext]_vars

\* one bulk job, from its submission to the end of its worker
SpecWorker ==
    InitPipeline /\ [][WorkerNext]_vars

\* one gateway response text and the parser applied to it
InitExtract ==
    /\ BulkInit /\ PipelineInit /\ openai_service = TRUE
    /\ ExtractInit /\ FetchIdle

SpecExtract ==
    InitExtract /\ [][ExtractNext]_vars

\* one call of fetch_zendesk_ticket_details or fetch_zendesk_ticket_comments
InitFetch ==
    /\ BulkInit /\ PipelineInit /\ openai_service = TRUE
    /\ ExtractIdle /\ FetchIdle

SpecFetch ==
    InitFetch /\ [][FetchNext]_vars

(***************************************************************************)
(* Properties of the bulk orchestrator (SpecBulk).                         *)
(***************************************************************************)

\* the number of tickets with the given status in a per-ticket map
CountOf(ticket_results, status) ==
    Cardinality({t \in DOMAIN ticket_results :
                    ticket_results[t].status = status})

\* C1: every row of the bulk_jobs table, which is what a status read
\* returns, has processed_count = success_count + failed_count and
\* processed_count <= total_tickets, and its three counts and its per-ticket
\* map are those of one progress update (never a mixture).
C1_CountsConsistent ==
    \A j \in DOMAIN bulk_jobs :
        LET row == bulk_jobs[j]
        IN /\ row.processed_count = row.success_count + row.failed_count
           /\ row.processed_count <= row.total_tickets
           /\ row.processed_count = Cardinality(DOMAIN row.ticket_results)
           /\ row.success_count = CountOf(row.ticket_results, "success")
           /\ row.failed_count = CountOf(row.ticket_results, "failed")

\* a running job after two progress updates, one success and one failure
C1_Witness ==
    \E j \in DOMAIN bulk_jobs :
        /\ bulk_jobs[j].status = "running"
        /\ bulk_jobs[j].success_count = 1
        /\ bulk_jobs[j].failed_count = 1
        /\ bulk_jobs[j].processed_count = 2

\* C2: a worker that was processing a ticket when cancel_job returned True
\* for its job ends by recording the status cancelled, and that is the
\* status of the job when the worker is done.
C2_CancelEndsCancelled ==
    \A w \in Workers :
        (worker[w].pc = "cleanup" /\ worker[w].cancel_item > 0)
            => worker[w].final_status = "cancelled"

Rank(status) ==
    CASE status = "pending" -> 0
      [] status = "running" -> 1
      [] status \in {"completed", "cancelled"} -> 2

\* C3: the recorded status of a job only moves forward along pending ->
\* running -> {completed, cancelled}, and never changes once it is completed
\* or cancelled.
C3_StatusForward ==
    [][\A j \in DOMAIN bulk_jobs :
          /\ Rank(bulk_jobs'[j].status) >= Rank(bulk_jobs[j].status)
          /\ bulk_jobs[j].status \in {"completed", "cancelled"}
                => bulk_jobs'[j].status = bulk_jobs[j].status]_vars

\* C4: at most one worker is executing for a job id at any time.
C4_AtMostOneWorker ==
    \A j \in JobIds :
        Cardinality({w \in Workers : Running(w) /\ worker[w].job = j}) <= 1

(***************************************************************************)
(* Properties of the analysis pipeline (SpecPipeline).                     *)
(***************************************************************************)

\* the keys every returned dict has
BaseKeys ==
    {"issue_description", "root_cause", "test_case_needed",
     "test_case_needed_reason", "regression_test_needed",
     "regression_test_needed_reason", "test_cases", "num_test_cases",
     "test_case_description", "test_case_steps", "recommended_solution",
     "additional_test_scenarios"}

\* some gateway call of the run raised
SomeCallFailed == \E i \in DOMAIN gateway_calls : ~gateway_calls[i].ok

\* the last gateway call of the run was of this kind and raised
LastCallFailed(call) ==
    /\ gateway_calls # <<>>
    /\ gateway_calls[Len(gateway_calls)].call = call
    /\ ~gateway_calls[Len(gateway_calls)].ok

\* the dict carries the message of an exception, cut to ErrTrunc characters
Explains(d) ==
    \/ d.root_cause.err # <<>> /\ d.root_cause.err[1].len <= ErrTrunc
    \/ /\ "validation_summary" \in DOMAIN d
       /\ d.validation_summary.err # <<>>
       /\ d.validation_summary.err[1].len <= ErrTrunc

CallsOf(call) ==
    Cardinality({i \in DOMAIN gateway_calls : gateway_calls[i].call = call})

\* C6: a run makes at most one classify, one generate, one validate and one
\* regenerate call, at most four calls in all.
C6_CallsBounded ==
    /\ \A call \in {"classify", "generate", "validate", "regenerate"} :
          CallsOf(call) <= 1
    /\ \A i \in DOMAIN gateway_calls :
          gateway_calls[i].call
              \in {"classify", "generate", "validate", "regenerate"}
    /\ Len(gateway_calls) <= 4

\* a run that made four calls, the last one a regeneration that failed
C6_Witness ==
    /\ ppc = "returned"
    /\ Len(gateway_calls) = 4
    /\ LastCallFailed("regenerate")

\* the state of the run in the terms of the pipeline's state machine
PipelineState ==
    CASE ppc = "entry" -> "Idle"
      [] ppc = "raised" -> "Raised"
      [] ppc = "phase1" -> "Classifying"
      [] ppc = "phase2" -> "Generating"
      [] ppc \in {"phase3", "validate"} -> "Validating"
      [] ppc \in {"regenerate_missing", "regenerate_feedback"} -> "Regenerating"
      [] ppc = "returned" ->
            IF Len(gateway_calls) = 1 /\ gateway_calls[1].ok THEN "NotNeeded"
            ELSE IF Len(gateway_calls) <= 2 /\ SomeCallFailed THEN "Failed"
            ELSE "Accepted"

\* the transitions of the state machine; Idle and the exits Raised and
\* Failed (the error dict of a Phase 1 or Phase 2 failure) surround it
PipelineTransitions ==
    {<<"Idle", "Classifying">>, <<"Idle", "Raised">>,
     <<"Classifying", "NotNeeded">>, <<"Classifying", "Generating">>,
     <<"Classifying", "Failed">>,
     <<"Generating", "Validating">>, <<"Generating", "Failed">>,
     <<"Validating", "Validating">>, <<"Validating", "Accepted">>,
     <<"Validating", "Regenerating">>,
     <<"Regenerating", "Accepted">>}

\* C7: a run only follows Classifying -> NotNeeded, Classifying ->
\* Generating -> Validating -> Accepted and Validating -> Regenerating ->
\* Accepted (or leaves through a failure exit); no generation or
\* regeneration call is made when test_case_needed is false, no validation
\* or regeneration call precedes the generation call, and no gateway call is
\* made once NotNeeded or Accepted is reached.
C7_PipelineOrder ==
    /\ [](\A i \in DOMAIN gateway_calls :
            /\ gateway_calls[i].call \in {"generate", "regenerate"}
                  => ticket_analysis[1].test_case_needed
            /\ gateway_calls[i].call \in {"validate", "regenerate"}
                  => \E k \in 1..(i - 1) : gateway_calls[k].call = "generate")
    /\ [][/\ <<PipelineState, PipelineState'>> \in PipelineTransitions
          /\ PipelineState \in {"NotNeeded", "Accepted", "Failed", "Raised"}
                => gateway_calls' = gateway_calls]_vars

\* a run accepted after classify, generate, validate and regenerate
C7_Witness ==
    /\ PipelineState = "Accepted"
    /\ Len(gateway_calls) = 4
    /\ \A i \in DOMAIN gateway_calls : gateway_calls[i].ok
    /\ gateway_calls[3].call = "validate"

\* the run returned after Phase 1 succeeded with test_case_needed true and
\* the Phase 2 call raised
Phase2Failed ==
    /\ ppc = "returned"
    /\ Len(gateway_calls) = 2
    /\ gateway_calls[1].ok
    /\ LastCallFailed("generate")

\* C8: when the Phase 2 call fails the returned dict keeps Phase 1's issue
\* description and root cause, has validation_passed None and holds a
\* truncated error string in validation_issues.
C8_Phase2FailureKeepsPhase1 ==
    Phase2Failed =>
        LET d == result[1]
        IN /\ d.issue_description = ticket_analysis[1].issue_description
           /\ d.root_cause = ticket_analysis[1].root_cause
           /\ "validation_passed" \in DOMAIN d
           /\ d.validation_passed = "None"
           /\ "validation_issues" \in DOMAIN d
           /\ \E i \in DOMAIN d.validation_issues :
                 /\ d.validation_issues[i].err # <<>>
                 /\ d.validation_issues[i].err[1].len <= ErrTrunc

\* the run returned after the validation call raised
ValidationFailed ==
    /\ ppc = "returned"
    /\ LastCallFailed("validate")

\* C9 as stated: when the validation call fails the returned dict keeps the
\* test cases of Phase 2, has validation_passed None and holds a truncated
\* error string in validation_issues.
C9_ValidationFailureInIssues ==
    ValidationFailed =>
        LET d == result[1]
        IN /\ d.test_cases = enhanced_results[1].test_cases
           /\ d.validation_passed = "None"
           /\ \E i \in DOMAIN d.validation_issues :
                 /\ d.validation_issues[i].err # <<>>
                 /\ d.validation_issues[i].err[1].len <= ErrTrunc

\* the length of the message of the exception validate_test_cases raises
ValidationMessageLen(e) ==
    IF e.openai THEN Len(Chars(Phase3Prefix)) + e.len ELSE e.len

\* C9, amended: when the validation call fails the returned dict keeps the
\* test cases of Phase 2 (all from the generate call), has validation_passed
\* None, an empty validation_issues list, and the first ErrTrunc characters
\* of the error message in validation_summary.
C9_ValidationFailureInSummary ==
    ValidationFailed =>
        LET d == result[1]
            e == gateway_calls[Len(gateway_calls)].err[1]
        IN /\ d.test_cases = enhanced_results[1].test_cases
           /\ Len(d.test_cases) > 0
           /\ \A i \in DOMAIN d.test_cases : d.test_cases[i].origin = "generate"
           /\ d.validation_passed = "None"
           /\ d.validation_issues = <<>>
           /\ d.validation_summary.text = "Validation failed: "
           /\ d.validation_summary.err # <<>>
           /\ d.validation_summary.err[1].len
                 = Min(ValidationMessageLen(e), ErrTrunc)

\* the validation call failed with a message longer than ErrTrunc
C9_Witness ==
    /\ ValidationFailed
    /\ ValidationMessageLen(gateway_calls[Len(gateway_calls)].err[1]) > ErrTrunc
    /\ Len(result[1].test_cases) = MaxTestCases

\* C10: when the Phase 1 call fails no other gateway call is made and the
\* run returns, without raising, a dict whose issue description and root
\* cause describe the failure, with test_case_needed false and no test
\* cases.
C10_Phase1FailureIsFinal ==
    (gateway_calls # <<>> /\ ~gateway_calls[1].ok) =>
        /\ Len(gateway_calls) = 1
        /\ raised = <<>>
        /\ ppc = "returned"
        /\ result # <<>>
        /\ result[1].issue_description = "Analysis failed due to error"
        /\ result[1].root_cause.text = "Unable to analyze: "
        /\ result[1].root_cause.err # <<>>
        /\ result[1].root_cause.err[1].len <= ErrTrunc
        /\ result[1].test_case_needed = FALSE
        /\ result[1].test_cases = <<>>
        /\ result[1].num_test_cases = 0

\* the Phase 1 call timed out
C10_Witness ==
    /\ ppc = "returned"
    /\ Len(gateway_calls) = 1
    /\ gateway_calls[1].call = "classify"
    /\ gateway_calls[1].err # <<>>
    /\ gateway_calls[1].err[1].openai

\* the Phase 2 call returned an output without any test case
Phase2Empty ==
    /\ Len(gateway_calls) >= 2
    /\ gateway_calls[2].call = "generate"
    /\ gateway_calls[2].ok
    /\ enhanced_results[1].test_cases = <<>>

\* C11: when Phase 2 yields no test case the run makes no validation call
\* and one regeneration call, whose feedback is the 'no test cases' text,
\* and returns regeneration_attempted True whether that call returns or
\* raises.
C11_EmptyPhase2Regenerates ==
    Phase2Empty =>
        /\ CallsOf("validate") = 0
        /\ CallsOf("regenerate") <= 1
        /\ ppc \in {"phase3", "regenerate_missing", "returned"}
        /\ ppc = "returned" =>
              /\ Len(gateway_calls) = 3
              /\ gateway_calls[3].call = "regenerate"
              /\ result[1].regeneration_attempted = TRUE
              /\ gateway_calls[3].ok =>
                    /\ result[1].root_cause.feedback = <<MissingFeedback>>
                    /\ result[1].validation_passed = "True"
              /\ ~gateway_calls[3].ok =>
                    /\ result[1].test_cases = <<>>
                    /\ result[1].validation_passed = "False"

\* Phase 2 gave no test case and the regeneration call raised
C11_Witness ==
    /\ Phase2Empty
    /\ ppc = "returned"
    /\ LastCallFailed("regenerate")
    /\ result[1].regeneration_attempted = TRUE

\* the test case text fields of a result dict
TestCaseTextFields ==
    {"test_case_description", "test_case_steps", "recommended_solution",
     "additional_test_scenarios", "regression_test_needed_reason"}

\* C12: when test_case_needed is False after the override, the run returns
\* at once a dict with test_case_needed False, no test cases, a count of 0,
\* regression_test_needed None and every test case text field equal to the
\* non-blank text 'N/A - Test case not needed'.
C12_NotNeededSentinels ==
    (ticket_analysis # <<>> /\ ~ticket_analysis[1].test_case_needed) =>
        /\ ppc = "returned"
        /\ Len(gateway_calls) = 1
        /\ LET d == result[1]
           IN /\ d.test_case_needed = FALSE
              /\ d.test_cases = <<>>
              /\ d.num_test_cases = 0
              /\ d.regression_test_needed = "None"
              /\ \A k \in TestCaseTextFields :
                    /\ d[k] = "N/A - Test case not needed"
                    /\ d[k] # ""
              /\ d.issue_description = ticket_analysis[1].issue_description
              /\ d.root_cause = ticket_analysis[1].root_cause

\* Phase 1 answered Yes and the override turned it into not needed
C12_Witness ==
    /\ ppc = "returned"
    /\ Len(gateway_calls) = 1
    /\ gateway_calls[1].ok
    /\ result[1].test_case_needed = FALSE
    /\ result[1].test_case_needed_reason
          = S("User mistake or product limitation")
    /\ result[1].test_case_description = "N/A - Test case not needed"

\* C13: every dict get_ticket_analysis returns has the key validation_passed
\* holding True, False or None and the key regeneration_attempted holding a
\* bool.
C13_ValidationKeysAlways ==
    ppc = "returned" =>
        /\ "validation_passed" \in DOMAIN result[1]
        /\ result[1].validation_passed \in {"True", "False", "None"}
        /\ "regeneration_attempted" \in DOMAIN result[1]
        /\ result[1].regeneration_attempted \in BOOLEAN

\* C14: the override follows the decision table, first matching row first:
\* root cause unclear and functional gap -> needed; unclear and no gap -> not
\* needed; else code bug -> needed; else user mistake or product limitation
\* -> not needed; else the answer and the reason of Phase 1 are kept.  The
\* issue 'user configuration error' with an empty root cause is not needed.
C14_DecisionTable ==
    ticket_analysis # <<>> =>
        LET a == ticket_analysis[1]
            unclear == root_cause_not_identified(a)
            gap == functional_gap_indicators(a)
            bug == code_bug_indicators(a)
            excused == is_pure_user_mistake(a) \/ is_product_limitation(a)
        IN /\ (unclear /\ gap) => a.test_case_needed
           /\ (unclear /\ ~gap) => ~a.test_case_needed
           /\ (~unclear /\ bug) => a.test_case_needed
           /\ (~unclear /\ ~bug /\ excused) => ~a.test_case_needed
           /\ (~unclear /\ ~bug /\ ~excused) =>
                 /\ a.test_case_needed_reason.text \in AnswerTexts
                 /\ a.test_case_needed_reason = S(a.test_case_needed_reason.text)
                 /\ a.test_case_needed
                       = StartsWithYes(a.test_case_needed_reason.text)
           /\ (unclear \/ bug \/ excused) =>
                 a.test_case_needed_reason.text \notin AnswerTexts
           /\ (a.issue_description = "user configuration error"
                 /\ a.root_cause.text = "") =>
                 /\ ~unclear /\ ~bug /\ is_pure_user_mistake(a)
                 /\ ~a.test_case_needed

\* an unclear root cause that names an exception, with no functional gap in
\* the issue: the second row wins over the third
C14_Witness ==
    /\ ppc = "returned"
    /\ ticket_analysis # <<>>
    /\ root_cause_not_identified(ticket_analysis[1])
    /\ code_bug_indicators(ticket_analysis[1])
    /\ ~functional_gap_indicators(ticket_analysis[1])
    /\ ~result[1].test_case_needed

\* Phase 1 returned the issue 'Exception not handled' and the root cause
\* 'unclear root cause, but TASK NOT CREATED'
C15_Inputs ==
    /\ ticket_analysis # <<>>
    /\ ticket_analysis[1].issue_description = "Exception not handled"
    /\ ticket_analysis[1].root_cause.text
          = "unclear root cause, but TASK NOT CREATED"

\* C15 as stated: for these texts test_case_needed is True, by the first
\* row.
C15_ExampleNeeded ==
    C15_Inputs => ticket_analysis[1].test_case_needed

\* C15, amended: for these texts the root cause is unclear and the issue
\* text holds no functional gap phrase (the phrase 'task not created' is in
\* the root cause, where it is not looked for), so the second row gives
\* test_case_needed False and the run returns without a Phase 2 call.
C15_ExampleNotNeeded ==
    C15_Inputs =>
        /\ root_cause_not_identified(ticket_analysis[1])
        /\ ~functional_gap_indicators(ticket_analysis[1])
        /\ functional_gap_indicators_combined(ticket_analysis[1])
        /\ ~ticket_analysis[1].test_case_needed
        /\ ticket_analysis[1].test_case_needed_reason
              = S("Root cause not identified and no clear functional gap")
        /\ ppc = "returned"
        /\ Len(gateway_calls) = 1
        /\ ~result[1].test_case_needed

\* the run for these texts has returned
C15_Witness ==
    /\ C15_Inputs
    /\ ppc = "returned"
    /\ result[1].root_cause.text = "unclear root cause, but TASK NOT CREATED"
    /\ result[1].test_cases = <<>>

(***************************************************************************)
(* Further properties of the bulk orchestrator (SpecBulk, SpecWorker).     *)
(***************************************************************************)

\* C16: a row recorded as cancelled holds as processed_count the number of
\* tickets in its per-ticket map, and its status, its counts and its
\* per-ticket map never change afterwards.
C16_CancelledIsFrozen ==
    [][\A j \in DOMAIN bulk_jobs :
          bulk_jobs[j].status = "cancelled" =>
              /\ bulk_jobs[j].processed_count
                    = Cardinality(DOMAIN bulk_jobs[j].ticket_results)
              /\ bulk_jobs'[j] = bulk_jobs[j]]_vars

\* C17: a ticket whose processing fails (a failure result, or an exception
\* of a collaborator) adds one to failed_count, puts its error message, of
\* at most ErrTrunc characters where it is an exception's, into the
\* per-ticket map, is published with the progress update, and the worker
\* goes on to the next ticket: a job that is not cancelled ends completed
\* with all its tickets processed.
C17_FailureDoesNotAbort ==
    /\ [][\A w \in Workers :
            (worker[w].pc = "item" /\ worker'[w].pc # "item") =>
                LET t == worker[w].processed_count + 1
                    res == worker'[w].last_item[1].result
                    row == bulk_jobs'[worker[w].job]
                IN /\ worker'[w].pc = "loop"
                   /\ worker'[w].processed_count = t
                   /\ row.processed_count = t
                   /\ ~res.success =>
                         /\ worker'[w].failed_count = worker[w].failed_count + 1
                         /\ worker'[w].success_count = worker[w].success_count
                         /\ row.failed_count = worker'[w].failed_count
                         /\ row.ticket_results[t].status = "failed"
                         /\ row.ticket_results[t].error = res.error
                         /\ res.error.err # <<>> =>
                               res.error.err[1].len <= ErrTrunc]_vars
    /\ [](\A w \in Workers :
            (worker[w].pc = "cleanup" /\ ~worker[w].cancel_requested) =>
                /\ worker[w].final_status = "completed"
                /\ bulk_jobs[worker[w].job].status = "completed"
                /\ bulk_jobs[worker[w].job].processed_count = worker[w].n)

\* a job completed after its first ticket failed with an exception whose
\* message was cut and its second ticket succeeded
C17_Witness ==
    \E j \in DOMAIN bulk_jobs :
        /\ bulk_jobs[j].status = "completed"
        /\ bulk_jobs[j].processed_count >= 2
        /\ bulk_jobs[j].ticket_results[1].status = "failed"
        /\ bulk_jobs[j].ticket_results[1].error.err # <<>>
        /\ bulk_jobs[j].ticket_results[1].error.err[1].len = ErrTrunc
        /\ bulk_jobs[j].ticket_results[2].status = "success"

\* C18: with both analysis kinds enabled, a ticket whose test case analysis
\* was reached succeeds whatever the analysis did; when it raised or was not
\* saved the priority analysis is still run, if there is a priority service,
\* and saved unless it fails itself; a saved test case summary stays saved
\* when the priority analysis fails, and nothing saved is ever removed.
C18_AnalysesIndependent ==
    /\ [](\A w \in Workers :
            (/\ worker[w].last_item # <<>>
             /\ worker[w].run_test_case /\ worker[w].run_priority
             /\ worker[w].last_item[1].analysis # "none") =>
                LET out == worker[w].last_item[1]
                    t == worker[w].processed_count
                IN /\ out.result.success
                   /\ out.priority # "none"
                   /\ worker[w].priority_service <=>
                         out.priority \in {"saved", "save_failed", "raised"}
                   /\ out.analysis = "saved" => t \in ticket_summaries
                   /\ out.priority = "saved" => t \in ticket_priorities)
    /\ [][/\ ticket_summaries \subseteq ticket_summaries'
          /\ ticket_priorities \subseteq ticket_priorities']_vars

\* the priority analysis of a ticket raised after its test case summary had
\* been saved
C18_Witness ==
    \E w \in Workers :
        /\ worker[w].last_item # <<>>
        /\ worker[w].run_test_case /\ worker[w].run_priority
        /\ worker[w].last_item[1].analysis = "saved"
        /\ worker[w].last_item[1].priority = "raised"
        /\ worker[w].processed_count \in ticket_summaries
        /\ worker[w].processed_count \notin ticket_priorities

\* C19: a bulk_index submission with no analysis kind selected creates no
\* row and starts no worker; every worker runs with some kind enabled.
C19_NoKindRejected ==
    /\ [][(last_ret' = <<"bulk_index", None, FALSE>> /\ last_ret' # last_ret) =>
            /\ bulk_jobs' = bulk_jobs
            /\ active_jobs' = active_jobs
            /\ worker' = worker]_vars
    /\ [](\A w \in Workers :
            Running(w) => worker[w].run_test_case \/ worker[w].run_priority)

\* a submission was rejected and there is no row and no worker
C19_Witness ==
    /\ last_ret = <<"bulk_index", None, FALSE>>
    /\ bulk_jobs = <<>>
    /\ active_jobs = <<>>
    /\ \A w \in Workers : worker[w].pc = "idle"

\* the job has a worker thread that has not returned
HasRunningWorker(j) == \E w \in Workers : Running(w) /\ worker[w].job = j

\* C20: cancel_job goes on to return True only for a job that has a running
\* worker, and returns False only for a job that has none, leaving the
\* table and the registry as they are.
C20_CancelFalseIffNotRunning ==
    [][\A j \in JobIds :
          /\ cancelling'[j] > cancelling[j] => HasRunningWorker(j)
          /\ (last_ret' = <<"cancel_job", j, FALSE>> /\ last_ret' # last_ret) =>
                /\ ~HasRunningWorker(j)
                /\ bulk_jobs' = bulk_jobs
                /\ active_jobs' = active_jobs]_vars

(***************************************************************************)
(* Properties of the text extractor (SpecExtract).                         *)
(***************************************************************************)

\* the contract of the extractor: the trimmed text between the end of the
\* first "<key>:" and the nearest following "<label>:" of the known labels
SectionAfter(key, text, labels) ==
    IF Find(Marker(key), text) = 0 THEN <<>>
    ELSE LET rest == After(text, Marker(key))
             stops == {Find(Marker(labels[l]), rest) : l \in DOMAIN labels} \ {0}
             end == IF stops = {} THEN Len(rest)
                    ELSE (CHOOSE i \in stops : \A j \in stops : i <= j) - 1
         IN  Strip(SubSeq(rest, 1, end))

\* the text of the round-trip example
ExampleText ==
    Section("Root Cause", "X") \o Section("Test Case Needed", "Yes")

\* C21: every field that a parser reads with the section extractor is the
\* whitespace-trimmed text that follows the first "<label>:" up to the next
\* occurrence of any known label, and the empty string when the label is
\* absent, whatever the order of the labels; on the example text
\* extracting "Root Cause" yields "X" and "Test Case Needed" yields "Yes".
C21_ExtractorContract ==
    /\ (parsed # <<>> /\ parsed[1] = "phase1") =>
        /\ parsed[2].issue_description =
               SectionAfter("Issue Description", output, next_sections)
        /\ parsed[2].root_cause =
               SectionAfter("Root Cause", output, next_sections)
        /\ parsed[2].issue_theme =
               SectionAfter("Issue Theme", output, next_sections)
        /\ parsed[2].root_cause_theme =
               SectionAfter("Root Cause Theme", output, next_sections)
        /\ parsed[2].test_case_needed_reason =
               SectionAfter("Test Case Needed", output, next_sections)
        /\ output = ExampleText =>
               /\ parsed[2].root_cause = Chars("X")
               /\ parsed[2].test_case_needed_reason = Chars("Yes")
    /\ (parsed # <<>> /\ parsed[1] = "phase2") =>
        /\ parsed[2].regression_test_needed_reason =
               SectionAfter("Regression Test Needed", output, default_stop_at)
        /\ parsed[2].recommended_solution =
               SectionAfter("Recommended Solution Approach", output,
                            default_stop_at)
        /\ parsed[2].additional_test_scenarios =
               SectionAfter("Additional Test Scenarios", output,
                            default_stop_at)

\* the example text has been parsed, and so has a text whose labels are in
\* the opposite order
C21_Witness ==
    /\ parsed # <<>>
    /\ parsed[1] = "phase1"
    /\ output = Section("Test Case Needed", "Yes") \o Section("Root Cause", "X")
    /\ parsed[2].root_cause = Chars("X")
    /\ parsed[2].test_case_needed_reason = Chars("Yes")


\* the section text says that the question does not apply
SaysNotApplicable(t) ==
    \/ IsSubstring(Chars("N/A"), Upper(t))
    \/ IsSubstring(Chars("NOT APPLICABLE"), Upper(t))

\* C22: a boolean field derived from a section is true iff the trimmed
\* section text starts with "YES" case-insensitively, and the regression
\* flag of the Phase 2 result and of each test case is null whenever its
\* section text contains "N/A" or "NOT APPLICABLE" in any casing.
C22_BooleanFields ==
    /\ (parsed # <<>> /\ parsed[1] = "phase1") =>
        (parsed[2].test_case_needed
            <=> UpperStartsWithYes(
                    Strip(SectionAfter("Test Case Needed", output,
                                       next_sections))))
    /\ (parsed # <<>> /\ parsed[1] = "phase2") =>
        /\ SaysNotApplicable(parsed[2].regression_test_needed_reason)
               => parsed[2].regression_test_needed = "None"
        /\ \A k \in DOMAIN parsed[2].test_cases :
               SaysNotApplicable(parsed[2].test_cases[k].regression_reason)
                   => parsed[2].test_cases[k].regression_needed = "None"


(***************************************************************************)
(* Properties of the Zendesk fetches (SpecFetch).                          *)
(***************************************************************************)

\* C23: a fetch of the details or the comments of a ticket makes at most 3
\* attempts; a connection or timeout error on attempt 1 or 2 is followed by
\* a wait of 1s, then 2s, and a retry; such an error on attempt 3 ends the
\* fetch with an error; an error of any other class ends the fetch at once,
\* without a wait or a retry.
C23_BoundedRetries ==
    fetch # <<>> =>
        LET f == fetch[1]
            a == f.attempts
        IN  /\ Len(a) <= 3
            /\ f.attempt + 1 <= 3
            /\ f.waits \in {<<>>, <<1>>, <<1, 2>>}
            /\ Len(f.waits) =
                   Cardinality({i \in DOMAIN a :
                                   a[i] \in RetryableErrors /\ i < 3})
            /\ \A i \in DOMAIN a :
                /\ i < Len(a) => a[i] \in RetryableErrors
                /\ (a[i] \in RetryableErrors /\ i < 3 /\ i = Len(a)) =>
                       \/ f.pc = "sleep" /\ f.attempt = i - 1
                       \/ f.pc \in {"request", "fallback"} /\ f.attempt = i
                /\ (a[i] \in RetryableErrors /\ i = 3) =>
                       f.pc = "raised" /\ f.raised = "RequestException"
                /\ a[i] = "Exception" =>
                       /\ i = Len(a)
                       /\ f.pc = "raised"
                       /\ f.raised = "RequestException"
                       /\ Len(f.waits) = i - 1
            /\ f.raised = "ValueError" => (a = <<>> /\ f.waits = <<>>)

\* three attempts have ended in a timeout or a connection error: the fetch
\* has waited 1s and 2s and has raised
C23_Witness ==
    /\ fetch # <<>>
    /\ fetch[1].fn = "comments"
    /\ fetch[1].attempts = <<"Timeout", "ConnectionError", "Timeout">>
    /\ fetch[1].waits = <<1, 2>>
    /\ fetch[1].pc = "raised"


(***************************************************************************)
(* Properties of the regeneration (SpecPipeline).                          *)
(***************************************************************************)

\* the regeneration call has been made and has returned
RegenerationSucceeded ==
    \E i \in DOMAIN gateway_calls :
        gateway_calls[i].call = "regenerate" /\ gateway_calls[i].ok

\* C24: whenever a regeneration call succeeds, after zero test cases or
\* after validation asked for it, it is the last gateway call of the run
\* and its output is the returned result, with regeneration_attempted True,
\* even when the regenerated output has no test case.
C24_RegenerationIsFinal ==
    RegenerationSucceeded =>
        /\ gateway_calls[Len(gateway_calls)].call = "regenerate"
        /\ CallsOf("regenerate") = 1
        /\ CallsOf("validate") <= 1
        /\ ppc = "returned"
        /\ result # <<>>
        /\ result[1].regeneration_attempted = TRUE
        /\ result[1].validation_passed = "True"
        /\ result[1].num_test_cases \in 0..MaxTestCases
        /\ result[1].test_cases =
               TestCases(result[1].num_test_cases, "regenerate")

\* validation asked for a regeneration, which returned no test case, and
\* that output is the result
C24_Witness ==
    /\ RegenerationSucceeded
    /\ ppc = "returned"
    /\ CallsOf("validate") = 1
    /\ result[1].test_cases = <<>>
    /\ result[1].regeneration_attempted = TRUE


\* the run returned after both the Phase 1 and the Phase 2 call returned
ReachedPhase3 ==
    /\ ppc = "returned"
    /\ Len(gateway_calls) >= 2
    /\ gateway_calls[2].call = "generate"
    /\ gateway_calls[2].ok

\* C29: in every result of a run whose Phase 1 succeeded, issue_description
\* and root_cause are the texts extracted in Phase 1, also after a
\* regeneration: the validation feedback appended to the root cause for the
\* regeneration prompt is not in the returned root_cause.
C29_Phase1TextKept ==
    (ppc = "returned" /\ ticket_analysis # <<>> /\ ~Phase2Failed) =>
        /\ result[1].issue_description = ticket_analysis[1].issue_description
        /\ result[1].root_cause = ticket_analysis[1].root_cause
        /\ result[1].root_cause.feedback = <<>>

\* C30: in every result that reaches Phase 3, regeneration_attempted is True
\* if and only if a regeneration gateway call was issued during the run,
\* also when that call raised after validation asked for it.
C30_AttemptedIffRegenerated ==
    ReachedPhase3 =>
        (result[1].regeneration_attempted = TRUE
            <=> CallsOf("regenerate") > 0)


(***************************************************************************)
(* Further properties of the bulk orchestrator (SpecBulk, SpecWorker).     *)
(***************************************************************************)

\* C25: once cancel has been requested for the job of a running worker, no
\* later operation, a start for the same job id included, sets the job's
\* flag again while that worker runs, and the worker starts no further
\* item.
C25_CancelIsSticky ==
    [][\A w \in Workers :
          (Running(w) /\ worker[w].cancel_requested) =>
              /\ Running(w)' => ~GetActive(active_jobs', worker[w].job)
              /\ worker[w].pc = "loop" => worker'[w].pc # "item"]_vars


\* C26: the tickets of a job are processed one at a time in submission
\* order with none skipped: each progress update of a job is the next one,
\* and after the k-th the per-ticket map holds exactly the first k tickets,
\* with as many 'success' entries as success_count and as many 'failed'
\* entries as failed_count.
C26_SubmissionOrder ==
    [][\A w \in Workers :
          (worker[w].pc = "item" /\ worker'[w].pc = "loop") =>
              LET before == bulk_jobs[worker[w].job]
                  row == bulk_jobs'[worker[w].job]
              IN  /\ row.processed_count = before.processed_count + 1
                  /\ DOMAIN row.ticket_results = 1..row.processed_count
                  /\ CountOf(row.ticket_results, "success") = row.success_count
                  /\ CountOf(row.ticket_results, "failed") = row.failed_count
                  /\ \A v \in Workers \ {w} :
                         worker[v].job = worker[w].job => worker[v].pc # "item"]_vars


\* C27: when a worker finishes, the final status it writes is completed
\* exactly when processed_count equals the number of submitted tickets and
\* cancelled otherwise, whether or not a cancel was requested; a job with
\* an empty list of tickets ends completed with all counts 0.
C27_FinalStatusByCount ==
    [][\A w \in Workers :
          (worker[w].pc = "final" /\ worker'[w].pc = "cleanup") =>
              LET row == bulk_jobs'[worker[w].job]
                  final_status == worker'[w].final_status
              IN  /\ final_status \in {"completed", "cancelled"}
                  /\ final_status = "completed"
                         <=> worker[w].processed_count = worker[w].n
                  /\ row.status = final_status
                  /\ row.processed_count = worker[w].processed_count
                  /\ worker[w].n = 0 =>
                         /\ row.status = "completed"
                         /\ row.processed_count = 0
                         /\ row.success_count = 0
                         /\ row.failed_count = 0]_vars

\* a cancel was requested during the last ticket of a job, and the job ends
\* completed
C27_Witness ==
    \E w \in Workers :
        /\ worker[w].pc = "cleanup"
        /\ worker[w].cancel_requested
        /\ worker[w].n > 0
        /\ worker[w].final_status = "completed"

\* the conditions under which process_single_ticket returns a failure
ItemFails(input) ==
    \/ input.ticket # "200"
    \/ input.fields = "raise"
    \/ input.comments # "200"
    \/ ~input.conversation

\* C28: a ticket is recorded as failed exactly when the fetch of the ticket
\* or of its comments fails (a status other than 200, or an exception), its
\* formatted conversation is empty, or an exception is raised outside the
\* two analyses; a ticket whose enabled analyses all fail, whose results
\* cannot be stored, or whose priority analysis is enabled without a
\* priority service is recorded as success.
C28_FailedExactlyWhen ==
    \A w \in Workers :
        worker[w].last_item # <<>> =>
            LET out == worker[w].last_item[1]
                input == worker[w].last_item[2]
                t == worker[w].processed_count
            IN  /\ ~out.result.success <=> ItemFails(input)
                /\ worker[w].ticket_results[t].status =
                       IF ItemFails(input) THEN "failed" ELSE "success"
                /\ ItemFails(input) =>
                       out.analysis = "none" /\ out.priority = "none"

\* both analyses were enabled and both raised, and the ticket is recorded
\* as success
C28_Witness ==
    \E w \in Workers :
        /\ worker[w].last_item # <<>>
        /\ worker[w].last_item[1].analysis = "raised"
        /\ worker[w].last_item[1].priority = "raised"
        /\ worker[w].ticket_results[worker[w].processed_count].status = "success"

====
